---- MODULE Spec2Model ----
(***************************************************************************)
(* GrabDoc: the shader node-graph builder (utils/node.py: node_init), the  *)
(* node splice / un-splice protocol (apply_node_to_objects, node_cleanup)  *)
(* and the bake state snapshot / restore (utils/baker.py: baker_init,      *)
(* baker_cleanup and the bake map descriptors).                            *)
(*                                                                         *)
(* A node name is a pair <<base, k>>: the host keeps node and data-block   *)
(* names unique per collection by appending ".00k", so <<"GD_Normal", 1>>  *)
(* is the name "GD_Normal.001" and <<"GD_Normal", 0>> is "GD_Normal".      *)
(* An output socket is identified by its index in the node's outputs; a    *)
(* lookup outputs[<name>] finds the first socket of that name.             *)
(***************************************************************************)
EXTENDS Naturals, Integers, Sequences, FiniteSets, TLC

(***************************************************************************)
(* Names (constants.py: class Global)                                      *)
(***************************************************************************)
NORMAL_NODE == "GD_Normal"
CURVATURE_NODE == "GD_Curvature"
OCCLUSION_NODE == "GD_Ambient Occlusion"
HEIGHT_NODE == "GD_Height"
ALPHA_NODE == "GD_Alpha"
COLOR_NODE == "GD_Base Color"
EMISSIVE_NODE == "GD_Emissive"
ROUGHNESS_NODE == "GD_Roughness"
METALLIC_NODE == "GD_Metallic"
GD_MATERIAL_NAME == "GD_Material"
COLOR_NAME == "Base Color"
ALPHA_NAME == "Alpha"
ROUGHNESS_NAME == "Roughness"
METALLIC_NAME == "Metallic"

\* The recipes node_init builds, in the order it builds them.
RecipeOrder ==
    << NORMAL_NODE, CURVATURE_NODE, OCCLUSION_NODE, HEIGHT_NODE, ALPHA_NODE,
       COLOR_NODE, EMISSIVE_NODE, ROUGHNESS_NODE, METALLIC_NODE >>

Recipes == { RecipeOrder[i] : i \in 1..Len(RecipeOrder) }

\* The recipes whose passthrough is bridged to a BSDF's channel sockets.
SHADER_MAP_NAMES ==
    { COLOR_NODE, EMISSIVE_NODE, ROUGHNESS_NODE, METALLIC_NODE,
      NORMAL_NODE, ALPHA_NODE, OCCLUSION_NODE }

(***************************************************************************)
(* The host's node vocabulary, as far as the code reads it                 *)
(***************************************************************************)
\* The inputs of a material output node, in socket order.
OutputNodeInputs == << "Surface", "Volume", "Displacement", "Thickness" >>

\* The input sockets of a node of a given type, in socket order.
InputNames(type) ==
    CASE type = "BSDF_PRINCIPLED" ->
            << "Base Color", "Metallic", "Roughness", "Alpha", "Normal",
               "Emission Color" >>
      [] type = "BSDF_DIFFUSE" -> << "Color", "Roughness", "Normal" >>
      [] type = "OUTPUT_MATERIAL" -> OutputNodeInputs
      [] OTHER -> << >>

\* The output sockets of a node of a given type, in socket order.  A Mix
\* node has one "Result" output per data type: the names repeat.
OutputNames(type) ==
    CASE type = "BSDF_PRINCIPLED" -> << "BSDF" >>
      [] type = "BSDF_DIFFUSE" -> << "BSDF" >>
      [] type = "MIX" -> << "Result", "Result" >>
      [] type = "TEX_IMAGE" -> << "Color", "Alpha" >>
      [] type = "DISPLACEMENT" -> << "Displacement" >>
      [] type = "GROUP" -> << "Shader" >>
      [] OTHER -> << >>

\* "BSDF" in node.type
IsBSDF(type) == type \in { "BSDF_PRINCIPLED", "BSDF_DIFFUSE" }

\* node.outputs[<socket name>]: the first output socket of that name.
OutputByName(type, sname) ==
    CHOOSE i \in 1..Len(OutputNames(type)) :
        /\ OutputNames(type)[i] = sname
        /\ \A j \in 1..(i - 1) : OutputNames(type)[j] # sname

SeqToSet(s) == { s[i] : i \in 1..Len(s) }

(***************************************************************************)
(* Node trees: [nodes: name -> node, links: set of links, blend: string]   *)
(***************************************************************************)
NoVals == [s \in {} |-> "0"]

UserNode(type) == [type |-> type, tree |-> "", vals |-> NoVals]

\* nodes.new(...) followed by .name = base: the first free <<base, k>>.
UniqueName(nodes, base) ==
    LET k == CHOOSE k \in 0..Cardinality(DOMAIN nodes) :
                /\ << base, k >> \notin DOMAIN nodes
                /\ \A j \in 0..(k - 1) : << base, j >> \in DOMAIN nodes
    IN  << base, k >>

AddNode(t, nm, node) == [t EXCEPT !.nodes = (nm :> node) @@ t.nodes]

\* links.new(input socket, output socket): an input socket holds one link,
\* a new link into it replaces the one it held.
NewLink(t, tn, ts, fn, fs) ==
    [t EXCEPT !.links =
        { l \in t.links : ~(l.tn = tn /\ l.ts = ts) }
            \cup { [fn |-> fn, fs |-> fs, tn |-> tn, ts |-> ts] }]

\* links.remove(link) for every link into the given input socket.
RemoveLinksInto(t, tn, ts) ==
    [t EXCEPT !.links = { l \in t.links : ~(l.tn = tn /\ l.ts = ts) }]

\* nodes.remove(node): the node goes, and every link from or to it.
RemoveNode(t, nm) ==
    [t EXCEPT
        !.nodes = [n \in (DOMAIN t.nodes) \ {nm} |-> t.nodes[n]],
        !.links = { l \in t.links : l.fn # nm /\ l.tn # nm }]

\* socket.links of an input socket
LinksInto(t, tn, ts) == { l \in t.links : l.tn = tn /\ l.ts = ts }

\* link.from_socket.name
FromSocketName(t, l) == OutputNames(t.nodes[l.fn].type)[l.fs]

\* source_node.outputs[link.from_socket.name]
SocketByLinkName(t, l) ==
    OutputByName(t.nodes[l.fn].type, FromSocketName(t, l))

OutputNodesOf(t) ==
    { n \in DOMAIN t.nodes : t.nodes[n].type = "OUTPUT_MATERIAL" }

(***************************************************************************)
(* node.py: get_material_output_inputs, generate_shader_interface          *)
(***************************************************************************)
\* The names of the output node's inputs, 'Thickness' skipped.
MaterialOutputInputs ==
    { OutputNodeInputs[i] : i \in { j \in 1..Len(OutputNodeInputs) :
                                        OutputNodeInputs[j] # "Thickness" } }

\* The input sockets of a recipe's interface: the saved-links panel plus
\* the sockets node_init adds per recipe.
RecipeInputs(name) ==
    MaterialOutputInputs \cup
    ( CASE name = NORMAL_NODE -> { "Alpha", "Normal" }
        [] name = OCCLUSION_NODE -> { "Alpha", "Normal" }
        [] name = ALPHA_NODE -> { ALPHA_NAME }
        [] name = COLOR_NODE -> { COLOR_NAME }
        [] name = EMISSIVE_NODE -> { "Emission Color", "Emission Strength" }
        [] name = ROUGHNESS_NODE -> { "Roughness" }
        [] name = METALLIC_NODE -> { "Metallic" }
        [] OTHER -> {} )

\* The default values node_init gives the interface sockets.
RecipeDefaults(name) ==
    CASE name = NORMAL_NODE -> [s \in { "Alpha" } |-> "1"]
      [] name = OCCLUSION_NODE ->
            [s \in { "Alpha", "Normal" } |-> IF s = "Alpha" THEN "1" ELSE "n"]
      [] name = ALPHA_NODE -> [s \in { ALPHA_NAME } |-> "1"]
      [] name = EMISSIVE_NODE ->
            [s \in { "Emission Color", "Emission Strength" } |->
                IF s = "Emission Color" THEN "black" ELSE "1"]
      [] OTHER -> NoVals

(***************************************************************************)
(* node.py: create_node_links                                              *)
(***************************************************************************)
\* The type of a default value: floats, integers, colours, a vector.
ValueType(v) ==
    CASE v \in { "0", "half", "1" } -> "FLOAT"
      [] v \in { "i0", "i1" } -> "INT"
      [] v \in { "grey", "white", "black" } -> "RGBA"
      [] v = "n" -> "VECTOR"
      [] OTHER -> "NONE"

\* The type of an input socket of a group node, by the socket's name: the
\* types node_init gives the interface sockets of its recipes, and the
\* integer socket "Steps" of a group the user made.
SocketType(s) ==
    CASE s \in { "Alpha", "Roughness", "Metallic", "Emission Strength" } ->
            "FLOAT"
      [] s \in { "Base Color", "Emission Color" } -> "RGBA"
      [] s = "Normal" -> "VECTOR"
      [] s = "Steps" -> "INT"
      [] OTHER -> "SHADER"

\* int(x) and float(x) of a number; of anything else, a TypeError.
ToInt(v) ==
    CASE v \in { "0", "half" } -> "i0"
      [] v = "1" -> "i1"
      [] v \in { "i0", "i1" } -> v
      [] OTHER -> "TypeError"

ToFloat(v) ==
    CASE v = "i0" -> "0"
      [] v = "i1" -> "1"
      [] v \in { "0", "half", "1" } -> v
      [] OTHER -> "TypeError"

\* socket.default_value = v: what the socket then holds.  A float socket
\* takes an integer as a float; any other mismatch is a TypeError.
Assigned(stype, v) ==
    IF ValueType(v) = stype
    THEN v
    ELSE IF stype = "FLOAT" /\ ValueType(v) = "INT"
    THEN ToFloat(v)
    ELSE "TypeError"

\* try: direct assignment; except TypeError: the value converted to int
\* when it is a float, to float otherwise, and assigned unguarded.
CopiedDefault(stype, v) ==
    IF Assigned(stype, v) # "TypeError"
    THEN Assigned(stype, v)
    ELSE IF ValueType(v) = "FLOAT"
    THEN Assigned(stype, ToInt(v))
    ELSE IF ToFloat(v) = "TypeError"
    THEN "TypeError"
    ELSE Assigned(stype, ToFloat(v))

\* Bridges the passthrough input input_name to what feeds original_input
\* (the input input_name of node src): a link from the same source when
\* original_input is linked, a copy of its default value otherwise.  The
\* result is whether a link was found; the call raises when the value
\* cannot be assigned even after conversion.  In a splice the two sockets
\* bear the same name and hold the same type, so the copy is direct.
create_node_links(t, input_name, p, src) ==
    LET ls == LinksInto(t, src, input_name)
        v == CopiedDefault(SocketType(input_name),
                           t.nodes[src].vals[input_name])
    IN  IF ls # {}
        THEN LET l == CHOOSE l \in ls : TRUE
             IN  [t |-> NewLink(t, p, input_name, l.fn, SocketByLinkName(t, l)),
                  found |-> TRUE, raised |-> FALSE]
        ELSE IF v = "TypeError"
        THEN [t |-> t, found |-> FALSE, raised |-> TRUE]
        ELSE [t |-> [t EXCEPT !.nodes[p].vals = (input_name :> v) @@ @],
              found |-> FALSE, raised |-> FALSE]

(***************************************************************************)
(* node.py: apply_node_to_objects                                          *)
(***************************************************************************)
\* A chain whose Normal branch takes the Alpha input as well.
ChannelMatchesAlphaToo(name, input_name) ==
    \/ name = ALPHA_NODE /\ input_name = ALPHA_NAME
    \/ name = NORMAL_NODE /\ input_name \in { "Normal", "Alpha" }

\* The elif chain's test: which input of a BSDF a recipe is bridged to.
ChannelMatches(name, input_name) ==
    \/ name = COLOR_NODE /\ input_name = COLOR_NAME
    \/ name = EMISSIVE_NODE /\ input_name = "Emission Color"
    \/ name = ROUGHNESS_NODE /\ input_name = ROUGHNESS_NAME
    \/ name = METALLIC_NODE /\ input_name = METALLIC_NAME
    \/ name = ALPHA_NODE /\ input_name = ALPHA_NAME
    \/ name = NORMAL_NODE /\ input_name = "Normal"
    \/ name = OCCLUSION_NODE /\ input_name = "Normal"

\* A splice that never writes blend_method.
BlendKept(name, input_name, blend, linked, use_texture) == blend

\* The blend_method the Alpha and Normal branches leave the material with.
BlendAfter(name, input_name, blend, linked, use_texture) ==
    IF /\ name = ALPHA_NODE \/ (name = NORMAL_NODE /\ use_texture)
       /\ input_name = "Alpha"
       /\ blend = "OPAQUE"
       /\ linked
    THEN "CLIP"
    ELSE blend

\* for original_input in source_node.inputs: ... elif node_found: break
RECURSIVE ScanInputs(_, _, _, _, _, _, _)
ScanInputs(t, name, p, src, use_texture, i, node_found) ==
    LET ins == InputNames(t.nodes[src].type)
    IN  IF i > Len(ins)
        THEN [t |-> t, found |-> node_found]
        ELSE IF ChannelMatches(name, ins[i])
        THEN LET linked == LinksInto(t, src, ins[i]) # {}
                 r == create_node_links(t, ins[i], p, src)
                 t2 == [r.t EXCEPT !.blend =
                            BlendAfter(name, ins[i], @, linked, use_texture)]
             IN  ScanInputs(t2, name, p, src, use_texture, i + 1, r.found)
        ELSE IF node_found
        THEN [t |-> t, found |-> node_found]
        ELSE ScanInputs(t, name, p, src, use_texture, i + 1, node_found)

\* A flag that forgets the exemption of the Normal recipe.
FlagAfterAnyRecipe(ok, node_found, name, mname) ==
    IF ~node_found /\ mname # GD_MATERIAL_NAME THEN FALSE ELSE ok

\* if not node_found and name != NORMAL_NODE and material is not the
\* scratch material: operation_success = False
FlagAfter(ok, node_found, name, mname) ==
    IF ~node_found /\ name # NORMAL_NODE /\ mname # GD_MATERIAL_NAME
    THEN FALSE
    ELSE ok

\* for output_material_input in output.inputs: for link in its links
RECURSIVE LinkLoop(_, _, _, _, _, _, _)
LinkLoop(st, mname, name, out, p, use_texture, i) ==
    IF i > Len(OutputNodeInputs)
    THEN st
    ELSE LET s == OutputNodeInputs[i]
             ls == LinksInto(st.t, out, s)
         IN  IF ls = {}
             THEN LinkLoop(st, mname, name, out, p, use_texture, i + 1)
             ELSE LET l == CHOOSE l \in ls : TRUE
                      \* passthrough.inputs[...]: KeyError is passed over
                      t1 == IF s \in RecipeInputs(name)
                            THEN NewLink(st.t, p, s, l.fn,
                                         SocketByLinkName(st.t, l))
                            ELSE st.t
                  IN  IF name \notin SHADER_MAP_NAMES
                         \/ ~IsBSDF(t1.nodes[l.fn].type)
                      THEN LinkLoop([st EXCEPT !.t = t1], mname, name, out,
                                    p, use_texture, i + 1)
                      ELSE LET r == ScanInputs(t1, name, p, l.fn,
                                               use_texture, 1, FALSE)
                           IN  LinkLoop(
                                 [t |-> r.t,
                                  ok |-> FlagAfter(st.ok, r.found, name, mname)],
                                 mname, name, out, p, use_texture, i + 1)

\* A removal that forgets the Displacement links.
DropVolumeOnly(t, out) == RemoveLinksInto(t, out, "Volume")

\* Remove the output node's Volume and Displacement links.
DropVolumeDisplacement(t, out) ==
    RemoveLinksInto(RemoveLinksInto(t, out, "Volume"), out, "Displacement")

\* A splice that forgets the link into Surface.
LinkSurfaceNowhere(t, out, p) == t

\* links.new(output.inputs["Surface"], passthrough.outputs["Shader"])
LinkSurface(t, out, p) ==
    NewLink(t, out, "Surface", p, OutputByName("GROUP", "Shader"))

\* The body of `for output in output_nodes`: one passthrough node and one
\* annotation frame per output node, both named after the recipe.
SpliceOutput(st, mname, name, out, use_texture) ==
    LET p  == UniqueName(st.t.nodes, name)
        t1 == AddNode(st.t, p,
                      [type |-> "GROUP", tree |-> name,
                       vals |-> RecipeDefaults(name)])
        f  == UniqueName(t1.nodes, name)
        t2 == AddNode(t1, f, [type |-> "FRAME", tree |-> "", vals |-> NoVals])
        s3 == LinkLoop([st EXCEPT !.t = t2], mname, name, out, p,
                       use_texture, 1)
    IN  [s3 EXCEPT !.t = LinkSurface(DropVolumeDisplacement(s3.t, out), out, p)]

\* The order in which the set output_nodes is iterated: unspecified, so
\* either end first.
RECURSIVE OrderOutputs(_, _)
OrderOutputs(outs, flip) ==
    IF outs = {}
    THEN << >>
    ELSE LET o == CHOOSE o \in outs :
                    \A q \in outs : IF flip THEN q[2] <= o[2] ELSE o[2] <= q[2]
         IN  << o >> \o OrderOutputs(outs \ {o}, flip)

RECURSIVE SpliceOutputs(_, _, _, _, _, _)
SpliceOutputs(st, mname, name, outs, use_texture, i) ==
    IF i > Len(outs)
    THEN st
    ELSE SpliceOutputs(SpliceOutput(st, mname, name, outs[i], use_texture),
                       mname, name, outs, use_texture, i + 1)

\* A presence check that never finds the passthrough.
AlreadySplicedNever(t, name) == FALSE

\* if name in nodes: continue
AlreadySpliced(t, name) == << name, 0 >> \in DOMAIN t.nodes

\* The body of `for slot in ob.material_slots` for one material.  With no
\* output node in the material the code calls .append on a set: the call
\* raises AttributeError before any node is created.
SpliceMaterial(t, ok, mname, name, flip, use_texture) ==
    IF AlreadySpliced(t, name)
    THEN [t |-> t, ok |-> ok, raised |-> FALSE]
    ELSE IF OutputNodesOf(t) = {}
    THEN [t |-> t, ok |-> ok, raised |-> TRUE]
    ELSE LET r == SpliceOutputs([t |-> t, ok |-> ok], mname, name,
                                OrderOutputs(OutputNodesOf(t), flip),
                                use_texture, 1)
         IN  [t |-> r.t, ok |-> r.ok, raised |-> FALSE]

\* mat.use_nodes = True on a new material: the host's default tree, a
\* Principled BSDF feeding a Material Output.
PrincipledDefaults ==
    [s \in SeqToSet(InputNames("BSDF_PRINCIPLED")) |->
        CASE s = "Base Color" -> "grey"
          [] s = "Metallic" -> "0"
          [] s = "Roughness" -> "half"
          [] s = "Alpha" -> "1"
          [] s = "Normal" -> "n"
          [] OTHER -> "white"]

DefaultTree ==
    [nodes |->
        (<< "Principled BSDF", 0 >> :>
            [type |-> "BSDF_PRINCIPLED", tree |-> "",
             vals |-> PrincipledDefaults])
        @@ (<< "Material Output", 0 >> :> UserNode("OUTPUT_MATERIAL")),
     links |-> { [fn |-> << "Principled BSDF", 0 >>, fs |-> 1,
                  tn |-> << "Material Output", 0 >>, ts |-> "Surface"] },
     blend |-> "OPAQUE"]

\* The scratch material: the default tree with a black Emission Color.
ScratchMaterial ==
    [DefaultTree EXCEPT
        !.nodes[<< "Principled BSDF", 0 >>].vals["Emission Color"] = "black"]

\* Every empty slot gets the scratch material; an object without slots
\* gets one slot holding it (ob.active_material = mat).
FillSlots(sl) ==
    IF sl = << >>
    THEN << GD_MATERIAL_NAME >>
    ELSE [i \in 1..Len(sl) |-> IF sl[i] = "" THEN GD_MATERIAL_NAME ELSE sl[i]]

\* if not ob.material_slots or "" in ob.material_slots: ...
EnsureSlots(st, ob) ==
    LET sl == st.slots[ob]
    IN  IF sl = << >> \/ "" \in SeqToSet(sl)
        THEN [st EXCEPT
                !.mats = IF GD_MATERIAL_NAME \in DOMAIN st.mats
                         THEN st.mats
                         ELSE (GD_MATERIAL_NAME :> ScratchMaterial) @@ st.mats,
                !.slots[ob] = FillSlots(sl)]
        ELSE st

\* for slot in ob.material_slots: splice the slot's material
RECURSIVE SpliceSlots(_, _, _, _, _, _)
SpliceSlots(st, ob, name, flip, use_texture, i) ==
    IF st.raised \/ i > Len(st.slots[ob])
    THEN st
    ELSE LET m == st.slots[ob][i]
             r == SpliceMaterial(st.mats[m], st.ok, m, name, flip, use_texture)
             changed == r.t # st.mats[m]
         IN  SpliceSlots(
                [st EXCEPT !.mats[m] = r.t, !.ok = r.ok, !.raised = r.raised,
                           !.texts = IF changed
                                     THEN @ \cup { "_grabdoc_ng_warning" }
                                     ELSE @],
                ob, name, flip, use_texture, i + 1)

\* for ob in objects
RECURSIVE ApplyObjects(_, _, _, _, _, _)
ApplyObjects(st, objs, name, flip, use_texture, i) ==
    IF st.raised \/ i > Len(objs)
    THEN st
    ELSE ApplyObjects(
            SpliceSlots(EnsureSlots(st, objs[i]), objs[i], name, flip,
                        use_texture, 1),
            objs, name, flip, use_texture, i + 1)

\* The whole call: the document after it, the flag and whether it raised.
apply_node_to_objects(mats, slots, texts, name, objs, flip, use_texture) ==
    ApplyObjects([mats |-> mats, slots |-> slots, texts |-> texts,
                  ok |-> TRUE, raised |-> FALSE],
                 objs, name, flip, use_texture, 1)

(***************************************************************************)
(* node.py: node_cleanup                                                   *)
(***************************************************************************)
\* Pairs <<prefix, longer name>> of the node names in use: none of the
\* recipe names is a proper prefix of another name.
ProperPrefixes == {}

\* node.name.startswith(setup_type), "base.00k" being the name <<base, k>>
StartsWith(nm, prefix) ==
    nm[1] = prefix \/ << prefix, nm[1] >> \in ProperPrefixes

\* node_input.name.split(' ')[-1]
LastWord(s) ==
    CASE s = "Base Color" -> "Color"
      [] s = "Emission Color" -> "Color"
      [] s = "Emission Strength" -> "Strength"
      [] OTHER -> s

\* node.inputs of a node in a material
NodeInputs(node) ==
    IF node.type = "GROUP"
    THEN RecipeInputs(node.tree)
    ELSE SeqToSet(InputNames(node.type))

\* The material-output nodes an output of the node is linked to.
DownstreamOutputs(t, nm) ==
    { l.tn : l \in { k \in t.links :
                        k.fn = nm /\ t.nodes[k.tn].type = "OUTPUT_MATERIAL" } }

\* for node_input in node.inputs: for link in node_input.links: reconnect
\* the link's source to the output node's socket of the same name.
RECURSIVE Reconnect(_, _, _, _, _)
Reconnect(t, nm, output_node, inputs, todo) ==
    IF todo = {}
    THEN t
    ELSE LET s == CHOOSE s \in todo : TRUE
             ls == LinksInto(t, nm, s)
         IN  IF ls = {} \/ LastWord(s) \notin inputs \/ s \notin inputs
             THEN Reconnect(t, nm, output_node, inputs, todo \ {s})
             ELSE LET l == CHOOSE l \in ls : TRUE
                  IN  Reconnect(
                        NewLink(t, output_node, s, l.fn, SocketByLinkName(t, l)),
                        nm, output_node, inputs, todo \ {s})

\* A cleanup that deletes the node and reconnects nothing.
CleanNodeOnlyRemoves(t, nm, inputs) == RemoveNode(t, nm)

\* The body of `for node in grabdoc_nodes`.
CleanNode(t, nm, inputs) ==
    LET downs == DownstreamOutputs(t, nm)
    IN  IF downs = {}
        THEN RemoveNode(t, nm)
        ELSE LET output_node == CHOOSE o \in downs :
                                    \A q \in downs : o[2] <= q[2]
             IN  RemoveNode(Reconnect(t, nm, output_node, inputs,
                                      NodeInputs(t.nodes[nm])), nm)

RECURSIVE CleanNodes(_, _, _)
CleanNodes(t, grabdoc_nodes, inputs) ==
    IF grabdoc_nodes = {}
    THEN t
    ELSE LET nm == CHOOSE n \in grabdoc_nodes :
                        \A q \in grabdoc_nodes : n[2] <= q[2]
         IN  CleanNodes(CleanNode(t, nm, inputs), grabdoc_nodes \ {nm}, inputs)

\* The loop body for one material other than the scratch material.
CleanMaterial(t, setup_type, inputs) ==
    IF << setup_type, 0 >> \notin DOMAIN t.nodes
    THEN t
    ELSE CleanNodes(t, { n \in DOMAIN t.nodes : StartsWith(n, setup_type) },
                    inputs)

\* A cleanup that un-splices the scratch material like any other.
CleanMaterialsKeepsScratch(mats, setup_type, inputs) ==
    [m \in DOMAIN mats |-> CleanMaterial(mats[m], setup_type, inputs)]

\* for mat in bpy.data.materials: the scratch material is removed, every
\* other material is un-spliced.
CleanMaterials(mats, setup_type, inputs) ==
    [m \in (DOMAIN mats) \ { GD_MATERIAL_NAME } |->
        CleanMaterial(mats[m], setup_type, inputs)]

\* A removed material leaves the slots that held it empty.
SlotsWithout(slots, gone) ==
    [ob \in DOMAIN slots |->
        [i \in 1..Len(slots[ob]) |->
            IF slots[ob][i] \in gone THEN "" ELSE slots[ob][i]]]

(***************************************************************************)
(* node.py: node_init                                                      *)
(***************************************************************************)
\* get_material_output_inputs: a dummy graph holding one material output
\* node is created, its input names are read, the graph is removed.
get_material_output_inputs(groups) ==
    LET g == UniqueName(groups, "Material Output")
        made == (g :> [nodes |-> { << "Material Output", 0 >> },
                       inputs |-> {}, params |-> "none"]) @@ groups
    IN  [groups |-> [n \in (DOMAIN made) \ {g} |-> made[n]],
         inputs |-> MaterialOutputInputs]

\* The nodes node_init creates in each recipe, by the name it gives them
\* (the host's default name where it gives none), in creation order.
RecipeNodeNames(name) ==
    CASE name = NORMAL_NODE ->
            << << "Group Output", 0 >>, << "Group Input", 0 >>,
               << "Bevel", 0 >>, << "Bevel", 1 >>, << "Vector Transform", 0 >>,
               << "Vector Math", 0 >>, << "Vector Math", 1 >>,
               << "Invert", 0 >>, << "Subtract", 0 >>,
               << "Transparent BSDF", 0 >>, << "Mix Shader", 0 >> >>
      [] name = CURVATURE_NODE ->
            << << "Group Output", 0 >>, << "Geometry", 0 >>,
               << "Color Ramp", 0 >>, << "Emission", 0 >> >>
      [] name = OCCLUSION_NODE ->
            << << "Group Input", 0 >>, << "Group Output", 0 >>,
               << "Ambient Occlusion", 0 >>, << "Gamma", 0 >>,
               << "Emission", 0 >> >>
      [] name = HEIGHT_NODE ->
            << << "Group Output", 0 >>, << "Camera Data", 0 >>,
               << "Map Range", 0 >>, << "ColorRamp", 0 >> >>
      [] name = ALPHA_NODE ->
            << << "Group Output", 0 >>, << "Group Input", 0 >>,
               << "Camera Data", 0 >>, << "Map Range", 0 >>,
               << "Invert Mask", 0 >>, << "Invert Depth", 0 >>,
               << "Invert Mask", 0 >>, << "Emission", 0 >> >>
      [] name = ROUGHNESS_NODE ->
            << << "Group Output", 0 >>, << "Group Input", 0 >>,
               << "Invert Color", 0 >>, << "Emission", 0 >> >>
      [] OTHER ->
            << << "Group Output", 0 >>, << "Group Input", 0 >>,
               << "Emission", 0 >> >>

\* tree.nodes.new(...) and .name = ... for each name in turn: a name that
\* is taken gets the next free number.
RECURSIVE NamedNodes(_, _, _)
NamedNodes(names, i, acc) ==
    IF i > Len(names)
    THEN acc
    ELSE LET b == names[i][1]
             k == CHOOSE k \in names[i][2]..(names[i][2] + Cardinality(acc)) :
                    /\ << b, k >> \notin acc
                    /\ \A j \in names[i][2]..(k - 1) : << b, j >> \in acc
         IN  NamedNodes(names, i + 1, acc \cup { << b, k >> })

\* The values node_init reads from the scene properties while building.
RecipeParams(name, props) ==
    CASE name = NORMAL_NODE -> IF props.flip_y THEN "-.5" ELSE ".5"
      [] name = OCCLUSION_NODE -> [gamma |-> props.gamma, distance |-> "1"]
      [] name = HEIGHT_NODE ->
            [from_min |-> 0, from_max |-> 1, ramp |-> "white to black"]
      [] OTHER -> "none"

\* The links node_init creates inside the Normal recipe, the one recipe
\* that is rewired after it is built; the wiring of the other recipes is
\* never read or changed again and is left out.  A link runs from the
\* output socket fs of node fn to the input socket ts of node tn; the two
\* shader inputs of the Mix Shader are told apart by their identifiers.
RecipeLinks(name) ==
    IF name # NORMAL_NODE
    THEN {}
    ELSE { [tn |-> l[1], ts |-> l[2], fn |-> l[3], fs |-> l[4]] :
            l \in { << << "Bevel", 0 >>, "Normal",
                       << "Group Input", 0 >>, "Normal" >>,
                    << << "Vector Transform", 0 >>, "Vector",
                       << "Bevel", 1 >>, "Normal" >>,
                    << << "Vector Math", 0 >>, "Vector",
                       << "Vector Transform", 0 >>, "Vector" >>,
                    << << "Vector Math", 1 >>, "Vector",
                       << "Vector Math", 0 >>, "Vector" >>,
                    << << "Group Output", 0 >>, "Shader",
                       << "Vector Math", 1 >>, "Vector" >>,
                    << << "Invert", 0 >>, "Color",
                       << "Group Input", 0 >>, "Alpha" >>,
                    << << "Subtract", 0 >>, "Color2",
                       << "Invert", 0 >>, "Color" >>,
                    << << "Mix Shader", 0 >>, "Fac",
                       << "Subtract", 0 >>, "Color" >>,
                    << << "Mix Shader", 0 >>, "Shader",
                       << "Transparent BSDF", 0 >>, "BSDF" >>,
                    << << "Mix Shader", 0 >>, "Shader_001",
                       << "Vector Math", 1 >>, "Vector" >> } }

\* The tree one `if not <name> in bpy.data.node_groups:` block builds.
BuildRecipe(name, inputs, props) ==
    [nodes |-> NamedNodes(RecipeNodeNames(name), 1, {}),
     inputs |-> inputs \cup (RecipeInputs(name) \ MaterialOutputInputs),
     params |-> RecipeParams(name, props),
     links |-> RecipeLinks(name)]

\* A build that does not look for the recipe first.
EnsureRecipeAlways(groups, name, inputs, props) ==
    (UniqueName(groups, name) :> BuildRecipe(name, inputs, props)) @@ groups

\* if not <name> in bpy.data.node_groups: build it
EnsureRecipe(groups, name, inputs, props) ==
    IF << name, 0 >> \in DOMAIN groups
    THEN groups
    ELSE (UniqueName(groups, name) :> BuildRecipe(name, inputs, props))
            @@ groups

RECURSIVE EnsureRecipes(_, _, _, _)
EnsureRecipes(groups, inputs, props, i) ==
    IF i > Len(RecipeOrder)
    THEN groups
    ELSE EnsureRecipes(EnsureRecipe(groups, RecipeOrder[i], inputs, props),
                       inputs, props, i + 1)

node_init(groups, props) ==
    LET r == get_material_output_inputs(groups)
    IN  EnsureRecipes(r.groups, r.inputs, props, 1)

(***************************************************************************)
(* baker.py: the bake maps and the snapshot / restore of the host settings *)
(* A setting is named by the last word of its path in the host             *)
(* (scene.cycles.samples is samples) and valued by the text of its value.  *)
(***************************************************************************)
\* The settings of a scene, as the user left them.
UserScenes ==
    { [ use_local_camera |-> "True", camera |-> "Camera",
      view_layer_use |-> "True", use_single_layer |-> "False",
      world_use_nodes |-> "True", engine |-> "BLENDER_EEVEE",
      render_aa |-> "8", viewport_aa |-> "FXAA",
      taa_render_samples |-> "64", taa_samples |-> "16",
      preview_samples |-> "1024", samples |-> "4096",
      use_bloom |-> "False", use_gtao |-> "False", gtao_distance |-> "0.2",
      gtao_quality |-> "0.25", use_overscan |-> "False",
      overscan_size |-> "3", display_device |-> "sRGB",
      view_transform |-> "Filmic", look |-> "None", exposure |-> "0",
      gamma |-> "1", film_transparent |-> "False",
      use_high_quality_normals |-> "False", filter_size |-> "1.5",
      filter_width |-> "1.5", pixel_filter_type |-> "BLACKMAN_HARRIS",
      resolution_x |-> "1920", resolution_y |-> "1080",
      resolution_percentage |-> "100", color_mode |-> "RGBA",
      file_format |-> "PNG", color_depth |-> "8", compression |-> "15",
      use_sequencer |-> "True", use_compositing |-> "True",
      dither_intensity |-> "1", light |-> "STUDIO",
      color_type |-> "MATERIAL", show_backface_culling |-> "False",
      show_xray |-> "False", show_shadows |-> "False",
      show_cavity |-> "False", use_dof |-> "False",
      show_object_outline |-> "True", show_specular_highlight |-> "True",
      cavity_type |-> "WORLD", cavity_ridge_factor |-> "1",
      curvature_ridge_factor |-> "1", cavity_valley_factor |-> "1",
      curvature_valley_factor |-> "1", single_color |-> "white",
      matcap_ssao_distance |-> "0.2", bg_plane_hide_viewport |-> "False",
      bg_plane_hide_render |-> "False", bg_plane_alpha |-> "1" ],
      [ use_local_camera |-> "False", camera |-> "None",
      view_layer_use |-> "False", use_single_layer |-> "True",
      world_use_nodes |-> "no world", engine |-> "CYCLES",
      render_aa |-> "OFF", viewport_aa |-> "5",
      taa_render_samples |-> "200", taa_samples |-> "50",
      preview_samples |-> "8", samples |-> "64", use_bloom |-> "True",
      use_gtao |-> "True", gtao_distance |-> "1", gtao_quality |-> "1",
      use_overscan |-> "True", overscan_size |-> "5",
      display_device |-> "Display P3", view_transform |-> "AgX",
      look |-> "High Contrast", exposure |-> "1.5", gamma |-> "2.2",
      film_transparent |-> "True", use_high_quality_normals |-> "True",
      filter_size |-> "2", filter_width |-> "2",
      pixel_filter_type |-> "GAUSSIAN", resolution_x |-> "1024",
      resolution_y |-> "1024", resolution_percentage |-> "50",
      color_mode |-> "BW", file_format |-> "JPEG", color_depth |-> "8",
      compression |-> "90", use_sequencer |-> "False",
      use_compositing |-> "False", dither_intensity |-> "2",
      light |-> "MATCAP", color_type |-> "RANDOM",
      show_backface_culling |-> "True", show_xray |-> "True",
      show_shadows |-> "True", show_cavity |-> "True", use_dof |-> "True",
      show_object_outline |-> "False", show_specular_highlight |-> "False",
      cavity_type |-> "SCREEN", cavity_ridge_factor |-> "2",
      curvature_ridge_factor |-> "0.5", cavity_valley_factor |-> "2",
      curvature_valley_factor |-> "0.5", single_color |-> "red",
      matcap_ssao_distance |-> "1", bg_plane_hide_viewport |-> "True",
      bg_plane_hide_render |-> "True", bg_plane_alpha |-> "0.5" ] }

\* baker_init: the saved* field each captured setting goes to.
SavedFields ==
    [ savedViewLayerUse |-> "view_layer_use",
      savedUseSingleLayer |-> "use_single_layer",
      savedRenderer |-> "engine", savedWorkbenchSampling |-> "render_aa",
      savedWorkbenchVPSampling |-> "viewport_aa",
      savedEeveeRenderSampling |-> "taa_render_samples",
      savedEeveeSampling |-> "taa_samples",
      savedCyclesSampling |-> "preview_samples",
      savedCyclesRenderSampling |-> "samples",
      savedUseBloom |-> "use_bloom", savedUseAO |-> "use_gtao",
      savedAODistance |-> "gtao_distance",
      savedAOQuality |-> "gtao_quality",
      savedDisplayDevice |-> "display_device",
      savedViewTransform |-> "view_transform",
      savedContrastType |-> "look", savedExposure |-> "exposure",
      savedGamma |-> "gamma", savedTransparency |-> "film_transparent",
      savedHQNormals |-> "use_high_quality_normals",
      savedFilterSize |-> "filter_size",
      savedFilterSizeCycles |-> "filter_width",
      savedFilterSizeTypeCycles |-> "pixel_filter_type",
      savedColorMode |-> "color_mode", savedFileFormat |-> "file_format",
      savedColorDepth |-> "color_depth",
      savedUseSequencer |-> "use_sequencer",
      savedUseCompositor |-> "use_compositing",
      savedDitherIntensity |-> "dither_intensity", savedLight |-> "light",
      savedColorType |-> "color_type",
      savedBackface |-> "show_backface_culling", savedXray |-> "show_xray",
      savedShadows |-> "show_shadows", savedCavity |-> "show_cavity",
      savedDOF |-> "use_dof", savedOutline |-> "show_object_outline",
      savedShowSpec |-> "show_specular_highlight" ]

\* The saved* fields baker_cleanup writes back to their settings: the two
\* Cycles sampling fields are assigned from the scene instead.
RestoredFields ==
    (DOMAIN SavedFields) \ { "savedCyclesSampling", "savedCyclesRenderSampling" }

\* The settings sc with those of r written over them.
Override(sc, r) == [k \in DOMAIN sc |-> IF k \in DOMAIN r THEN r[k] ELSE sc[k]]

\* The fields sv with those of r written or added.
Remember(sv, r) ==
    [f \in (DOMAIN sv) \cup (DOMAIN r) |-> IF f \in DOMAIN r THEN r[f] ELSE sv[f]]

\* The add-on's scene properties (scene.gd and the first Normals and
\* Occlusion map) that the modelled code reads.
Props(coll_rendered, format) ==
    [flip_y |-> FALSE, gamma |-> "1", distance |-> "1", ridge |-> "2",
     valley |-> "1.5", use_texture |-> TRUE, preview_state |-> FALSE,
     export_path |-> "//export", export_name |-> "untitled",
     height_method |-> "AUTO", height_distance |-> 1, invert |-> FALSE,
     alpha_invert |-> FALSE,
     coll_rendered |-> coll_rendered, coll_visible |-> TRUE,
     format |-> format, depth |-> "16", exr_depth |-> "32",
     png_compression |-> "50", filter_width |-> "1.2",
     resolution_x |-> "2048", resolution_y |-> "2048"]

\* An init that makes the film opaque and the output RGB in every case.
BakerInitOpaque(sc, g) ==
    [saved |-> [f \in DOMAIN SavedFields |-> sc[SavedFields[f]]],
     scene |-> [sc EXCEPT !.film_transparent = "False",
                          !.color_mode = "RGB"]]

baker_init(sc, g) ==
    [saved |-> [f \in DOMAIN SavedFields |-> sc[SavedFields[f]]],
     scene |->
        Override(sc,
            [use_local_camera |-> "False", camera |-> "Trim Camera",
             view_layer_use |-> "True", use_single_layer |-> "True",
             world_use_nodes |->
                IF sc.world_use_nodes = "no world" THEN "no world" ELSE "False",
             use_bloom |-> "False",
             use_gtao |-> "False", gtao_distance |-> "0.2",
             gtao_quality |-> "0.5",
             use_high_quality_normals |-> "True",
             filter_size |-> g.filter_width, filter_width |-> g.filter_width,
             pixel_filter_type |-> "BLACKMAN_HARRIS",
             resolution_x |-> g.resolution_x, resolution_y |-> g.resolution_y,
             resolution_percentage |-> "100",
             film_transparent |->
                IF ~g.coll_rendered THEN "True" ELSE sc.film_transparent,
             color_mode |-> IF ~g.coll_rendered THEN "RGBA" ELSE "RGB",
             file_format |-> g.format,
             color_depth |->
                IF g.format = "OPEN_EXR" THEN g.exr_depth
                ELSE IF g.format # "TARGA" THEN g.depth ELSE sc.color_depth,
             compression |->
                IF g.format = "PNG" THEN g.png_compression ELSE sc.compression,
             use_sequencer |-> "False", use_compositing |-> "False",
             dither_intensity |-> "0",
             show_backface_culling |-> "False", show_xray |-> "False",
             show_shadows |-> "False", show_cavity |-> "False",
             use_dof |-> "False", show_object_outline |-> "False",
             show_specular_highlight |-> "False",
             bg_plane_hide_viewport |->
                IF g.coll_visible THEN "False" ELSE "True",
             bg_plane_hide_render |->
                IF g.coll_rendered THEN "False" ELSE "True"])]

\* A cleanup that restores nothing.
BakerCleanupRestoresNothing(sc, sv) == [scene |-> sc, saved |-> sv]

\* A cleanup that restores the saved settings and leaves the world alone.
BakerCleanupLeavesWorld(sc, sv) ==
    [scene |->
        [k \in DOMAIN sc |->
            IF \E f \in RestoredFields : SavedFields[f] = k
            THEN sv[CHOOSE f \in RestoredFields : SavedFields[f] = k]
            ELSE sc[k]],
     saved |-> sv]

baker_cleanup(sc, sv) ==
    [scene |->
        [k \in DOMAIN sc |->
            IF k = "world_use_nodes"
            THEN IF sc[k] = "no world" THEN sc[k] ELSE "True"
            ELSE IF \E f \in RestoredFields : SavedFields[f] = k
                 THEN sv[CHOOSE f \in RestoredFields : SavedFields[f] = k]
                 ELSE sc[k]],
     saved |->
        Remember(sv, [savedCyclesSampling |-> sc.preview_samples,
                      savedCyclesRenderSampling |-> sc.samples])]

\* The bake maps, their SUPPORTED_ENGINES and their sampling defaults.
BakeMaps ==
    [ Normals |-> { "blender_eevee", "cycles" },
      Curvature |-> { "blender_workbench" },
      Occlusion |-> { "blender_eevee", "cycles" },
      Height |-> { "blender_eevee", "cycles" },
      Alpha |-> { "blender_eevee", "cycles" },
      Id |-> { "blender_workbench" },
      Color |-> { "blender_eevee", "cycles" },
      Emissive |-> { "blender_eevee", "cycles" },
      Roughness |-> { "blender_eevee", "cycles" },
      Metalness |-> { "blender_eevee", "cycles" } ]

MapDefaults ==
    [samples |-> "128", samples_cycles |-> "32", samples_workbench |-> "16",
     ridge |-> "2", valley |-> "1.5", method |-> "RANDOM"]

Contrasts == { "None", "High_Contrast" }

\* The settings apply_render_settings writes for an engine: the engine,
\* the sampling fields of that engine, the colour management and the look.
PerMapOverrides(engine) ==
    { "engine", "display_device", "view_transform", "exposure", "gamma",
      "look" }
    \cup ( CASE engine = "blender_eevee" ->
                    { "taa_render_samples", "taa_samples" }
             [] engine = "cycles" -> { "samples", "preview_samples" }
             [] engine = "blender_workbench" -> { "render_aa", "viewport_aa" } )

\* The engine identifier as the property holds it.
AsHeld(engine) == engine

\* str(self.engine).upper()
Upper(engine) ==
    CASE engine = "blender_eevee" -> "BLENDER_EEVEE"
      [] engine = "cycles" -> "CYCLES"
      [] engine = "blender_workbench" -> "BLENDER_WORKBENCH"

\* self.contrast.replace('_', ' ')
ReplaceUnderscores(contrast) ==
    CASE contrast = "None" -> "None"
      [] contrast = "High_Contrast" -> "High Contrast"

set_color_management(sc, display_device, view_transform) ==
    Override(sc, [display_device |-> display_device,
                  view_transform |-> view_transform,
                  look |-> "None", exposure |-> "0", gamma |-> "1"])

\* A version that forgets the contrast look.
ApplyRenderSettingsNoLook(sc, engine, contrast, check, preview_state) ==
    set_color_management(Override(sc, [engine |-> Upper(engine)]),
                         "sRGB", "Standard")

\* The body of Baker.apply_render_settings below its commented-out early
\* return, COLOR_SPACE and VIEW_TRANSFORM being "sRGB" and "Standard" in
\* every map.
AppliedSettings(sc, engine, contrast) ==
    LET e == Upper(engine)
        sampled ==
            Override(sc,
                CASE e = "BLENDER_EEVEE" ->
                        [engine |-> e,
                         taa_render_samples |-> MapDefaults.samples,
                         taa_samples |-> MapDefaults.samples]
                  [] e = "CYCLES" ->
                        [engine |-> e,
                         samples |-> MapDefaults.samples_cycles,
                         preview_samples |-> MapDefaults.samples_cycles]
                  [] e = "BLENDER_WORKBENCH" ->
                        [engine |-> e,
                         render_aa |-> MapDefaults.samples_workbench,
                         viewport_aa |-> MapDefaults.samples_workbench]
                  [] OTHER -> [engine |-> e])
    IN  Override(set_color_management(sampled, "sRGB", "Standard"),
                 [look |-> ReplaceUnderscores(contrast)])

\* A version with the early return in force: nothing is applied when
\* check is off outside a live preview.
ApplyRenderSettingsInPreview(sc, engine, contrast, check, preview_state) ==
    IF ~check /\ ~preview_state
    THEN sc
    ELSE AppliedSettings(sc, engine, contrast)

\* Baker.apply_render_settings(check): the early return on check and
\* gd.preview_state is commented out, the settings are applied always.
apply_render_settings(sc, engine, contrast, check, preview_state) ==
    AppliedSettings(sc, engine, contrast)

\* The height of the bake camera,
\* bpy.data.objects[TRIM_CAMERA_NAME].location[2].
CameraZ == 10

\* get_rendered_objects()
get_rendered_objects == { "O1", "O2" }

\* set_guide_height(rendered_obs): the Map Range of the Height recipe is
\* made to span the rendered objects below the camera; O1 reaches 3 below
\* it and O2 reaches 5.
set_guide_height(groups, obs) ==
    LET reach == [ob \in { "O1", "O2" } |-> IF ob = "O1" THEN 3 ELSE 5]
        tallest == CHOOSE h \in { reach[ob] : ob \in obs } :
                        \A ob \in obs : reach[ob] <= h
    IN  [groups EXCEPT ![<< HEIGHT_NODE, 0 >>].params.from_min =
                            CameraZ - tallest,
                       ![<< HEIGHT_NODE, 0 >>].params.from_max = CameraZ]

\* scene_setup(self, context): the bake camera, the background plane and
\* the guides are set up again; the recipes are not its business.
scene_setup(groups) == groups

\* Height.setup after super().setup()
HeightSetup(groups, props) ==
    IF props.height_method = "AUTO"
    THEN set_guide_height(groups, get_rendered_objects)
    ELSE groups

\* A callback that recomputes the bounds whether or not a preview runs.
UpdateMethodAlways(groups, props) ==
    IF props.height_method = "AUTO"
    THEN set_guide_height(scene_setup(groups), get_rendered_objects)
    ELSE scene_setup(groups)

\* Height.update_method
update_method(groups, props) ==
    LET set_up == scene_setup(groups)
    IN  IF ~props.preview_state
        THEN set_up
        ELSE IF props.height_method = "AUTO"
             THEN set_guide_height(set_up, get_rendered_objects)
             ELSE set_up

\* Height.update_guide
update_guide(groups, props) ==
    LET ranged ==
            [groups EXCEPT
                ![<< HEIGHT_NODE, 0 >>].params.from_min =
                    CameraZ + (0 - props.height_distance),
                ![<< HEIGHT_NODE, 0 >>].params.from_max = CameraZ,
                ![<< HEIGHT_NODE, 0 >>].params.ramp =
                    IF props.invert THEN "black to white"
                                    ELSE "white to black"]
    IN  IF props.height_method = "MANUAL"
        THEN scene_setup(ranged)
        ELSE ranged

\* The rewiring Normals.setup and Normals.update_use_texture both make:
\* the Vector Transform and the Group Output are fed by the textured
\* chain or by the plain one.  links.new on an input that holds a link
\* replaces it.
RewireNormal(groups, use_texture) ==
    [groups EXCEPT ![<< NORMAL_NODE, 0 >>] =
        IF use_texture
        THEN NewLink(NewLink(@, << "Vector Transform", 0 >>, "Vector",
                             << "Bevel", 0 >>, "Normal"),
                     << "Group Output", 0 >>, "Shader",
                     << "Mix Shader", 0 >>, "Shader")
        ELSE NewLink(NewLink(@, << "Vector Transform", 0 >>, "Vector",
                             << "Bevel", 1 >>, "Normal"),
                     << "Group Output", 0 >>, "Shader",
                     << "Vector Math", 1 >>, "Vector")]

\* A callback that rewires whether or not a preview runs.
UpdateUseTextureAlways(groups, props) ==
    RewireNormal(groups, props.use_texture)

\* Normals.update_use_texture
update_use_texture(groups, props) ==
    IF ~props.preview_state
    THEN groups
    ELSE RewireNormal(groups, props.use_texture)

\* The callbacks that write into a recipe, the recipe each writes into
\* (self.NODE) and the property whose update each is.
Callbacks ==
    [ update_flip_y |-> [recipe |-> NORMAL_NODE, property |-> "flip_y"],
      update_use_texture |->
        [recipe |-> NORMAL_NODE, property |-> "use_texture"],
      update_gamma |-> [recipe |-> OCCLUSION_NODE, property |-> "gamma"],
      update_distance |-> [recipe |-> OCCLUSION_NODE, property |-> "distance"],
      update_guide |-> [recipe |-> HEIGHT_NODE, property |-> "height_distance"],
      update_alpha |-> [recipe |-> ALPHA_NODE, property |-> "alpha_invert"] ]

\* The names a callback passes to nodes.get of its recipe, "Bevel.001"
\* being the name << "Bevel", 1 >>.
LookedUp(cb, props) ==
    CASE cb = "update_flip_y" -> { << "Vector Math", 0 >> }
      [] cb = "update_use_texture" ->
            IF ~props.preview_state
            THEN {}
            ELSE { << "Vector Transform", 0 >>, << "Group Output", 0 >> }
                 \cup ( IF props.use_texture
                        THEN { << "Bevel", 0 >>, << "Mix Shader", 0 >> }
                        ELSE { << "Bevel", 1 >>, << "Vector Math", 1 >> } )
      [] cb = "update_gamma" -> { << "Gamma", 0 >> }
      [] cb = "update_distance" -> { << "Ambient Occlusion", 0 >> }
      [] cb = "update_guide" -> { << "Map Range", 0 >>, << "ColorRamp", 0 >> }
      [] cb = "update_alpha" -> { << "Map Range", 0 >>, << "Invert", 0 >> }

\* A callback run after its property was set.  bpy.data.node_groups[...]
\* of a missing recipe raises KeyError; nodes.get of a missing name gives
\* None, and the attribute read from it raises AttributeError.
RunCallback(cb, groups, props) ==
    LET g == << Callbacks[cb].recipe, 0 >>
        missing ==
            /\ LookedUp(cb, props) # {}
            /\ \/ g \notin DOMAIN groups
               \/ ~(LookedUp(cb, props) \subseteq groups[g].nodes)
    IN  IF missing THEN [groups |-> groups, raised |-> TRUE] ELSE
        [groups |->
            CASE cb = "update_flip_y" ->
                    [groups EXCEPT ![g].params =
                                        IF props.flip_y THEN "-.5" ELSE ".5"]
              [] cb = "update_use_texture" -> update_use_texture(groups, props)
              [] cb = "update_gamma" ->
                    [groups EXCEPT ![g].params.gamma = props.gamma]
              [] cb = "update_distance" ->
                    [groups EXCEPT ![g].params.distance = props.distance]
              [] cb = "update_guide" -> update_guide(groups, props)
              [] cb = "update_alpha" -> groups,
          raised |-> FALSE]

\* A callback that writes the shading fields whether or not a preview runs.
UpdateCurvatureAlways(sc, props) ==
    Override(sc, [cavity_ridge_factor |-> props.ridge,
                  curvature_ridge_factor |-> props.ridge,
                  curvature_valley_factor |-> props.valley])

\* Curvature.update_curvature
update_curvature(sc, props) ==
    IF ~props.preview_state
    THEN sc
    ELSE Override(sc, [cavity_ridge_factor |-> props.ridge,
                       curvature_ridge_factor |-> props.ridge,
                       curvature_valley_factor |-> props.valley])

\* A setup that turns ambient occlusion on for every map and engine.
MapSetupAmbient(map, sc, sv, engine, contrast, preview_state) ==
    [scene |-> Override(AppliedSettings(sc, engine, contrast),
                        [use_gtao |-> "True"]),
     saved |-> sv]

\* <map>.setup(): the settings and the map's own saved* fields after it.
MapSetupOf(map, sc, sv, engine, contrast, preview_state) ==
    LET base == apply_render_settings(sc, engine, contrast, FALSE,
                                      preview_state)
    IN  CASE map = "Curvature" ->
                [scene |->
                    Override(base,
                        [light |-> "FLAT", color_type |-> "SINGLE",
                         show_cavity |-> "True", cavity_type |-> "BOTH",
                         cavity_ridge_factor |-> MapDefaults.ridge,
                         curvature_ridge_factor |-> MapDefaults.ridge,
                         curvature_valley_factor |-> MapDefaults.valley,
                         cavity_valley_factor |-> "0",
                         single_color |-> "grey",
                         matcap_ssao_distance |-> "0.075"]),
                 saved |->
                    Remember(sv,
                        [savedCavityType |-> base.cavity_type,
                         savedCavityRidgeFactor |-> base.cavity_ridge_factor,
                         savedCurveRidgeFactor |-> base.curvature_ridge_factor,
                         savedCavityValleyFactor |-> base.cavity_valley_factor,
                         savedCurveValleyFactor |->
                            base.curvature_valley_factor,
                         savedRidgeDistance |-> base.matcap_ssao_distance,
                         savedSingleColor |-> base.single_color])]
          [] map = "Occlusion" ->
                [scene |->
                    IF base.engine = "BLENDER_EEVEE"
                    THEN Override(base, [use_gtao |-> "True",
                                         use_overscan |-> "True",
                                         overscan_size |-> "10"])
                    ELSE base,
                 saved |->
                    Remember(sv, [savedUseOverscan |-> base.use_overscan,
                                  savedOverscanSize |-> base.overscan_size])]
          [] map = "Id" ->
                [scene |->
                    IF base.engine = "BLENDER_WORKBENCH"
                    THEN Override(base, [show_cavity |-> "False",
                                         light |-> "FLAT",
                                         color_type |-> MapDefaults.method])
                    ELSE base,
                 saved |-> sv]
          [] OTHER -> [scene |-> base, saved |-> sv]

\* A cleanup that restores nothing.
MapCleanupNothing(map, sc, sv) == sc

\* <map>.cleanup()
MapCleanupOf(map, sc, sv) ==
    CASE map = "Curvature" ->
            Override(sc,
                [cavity_ridge_factor |-> sv.savedCavityRidgeFactor,
                 curvature_ridge_factor |-> sv.savedCurveRidgeFactor,
                 cavity_valley_factor |-> sv.savedCavityValleyFactor,
                 curvature_valley_factor |-> sv.savedCurveValleyFactor,
                 single_color |-> sv.savedSingleColor,
                 cavity_type |-> sv.savedCavityType,
                 matcap_ssao_distance |-> sv.savedRidgeDistance,
                 bg_plane_alpha |-> "1"])
      [] map = "Occlusion" ->
            Override(sc, [use_overscan |-> sv.savedUseOverscan,
                          overscan_size |-> sv.savedOverscanSize,
                          use_gtao |-> "False"])
      [] OTHER -> sc

(***************************************************************************)
(* The document                                                            *)
(***************************************************************************)
VARIABLES
    node_groups,    \* bpy.data.node_groups: name -> recipe tree
    materials,      \* bpy.data.materials: name -> node tree
    slots,          \* object -> its material slots ("" an empty slot)
    texts,          \* bpy.data.texts
    images,         \* bpy.data.images
    files,          \* the files of the export directory
    gd,             \* scene.gd: the add-on's scene properties
    scene,          \* the host settings the bake overrides
    saved,          \* the operator's saved* fields
    pc,             \* where the bake operation stands
    call,           \* the last call made and its outcome
    pre             \* the document as the last call found it

vars ==
    << node_groups, materials, slots, texts, images, files, gd, scene, saved,
       pc, call, pre >>

Objects == { "O1", "O2" }

ObjectLists == { << "O1" >>, << "O1", "O2" >>, << "O2", "O1" >> }

\* pass: the recipe of the bake map being exported; after: whether the
\* call directly follows an apply_node_to_objects with the same recipe.
NoCall(pass) ==
    [pass |-> pass, op |-> "none", name |-> "", result |-> "None",
     after |-> FALSE]

CallOf(op, name, result) ==
    [pass |-> call.pass, op |-> op, name |-> name, result |-> result,
     after |-> call.op = "apply" /\ call.name = name]

\* What a call found: the document, the objects it was given and, once it
\* is over, the materials it changed.
Found(objs, changed) ==
    [mats |-> materials, slots |-> slots, groups |-> node_groups,
     scene |-> scene, objs |-> objs, spliced |-> changed]

DefaultProps == Props(FALSE, "PNG")

AllRecipes == node_init([n \in {} |-> 0], DefaultProps)

(***************************************************************************)
(* The materials a document may hold when the protocol starts              *)
(***************************************************************************)
PB == << "Principled BSDF", 0 >>
PB2 == << "Principled BSDF", 1 >>
MO == << "Material Output", 0 >>
MO2 == << "Material Output", 1 >>
DIFF == << "Diffuse BSDF", 0 >>
MIX == << "Mix", 0 >>
TEX == << "Image Texture", 0 >>
DISP == << "Displacement", 0 >>

Link(fn, fs, tn, ts) == [fn |-> fn, fs |-> fs, tn |-> tn, ts |-> ts]

Principled == [type |-> "BSDF_PRINCIPLED", tree |-> "",
               vals |-> PrincipledDefaults]

Diffuse ==
    [type |-> "BSDF_DIFFUSE", tree |-> "",
     vals |-> [s \in SeqToSet(InputNames("BSDF_DIFFUSE")) |->
                CASE s = "Color" -> "grey"
                  [] s = "Normal" -> "n"
                  [] OTHER -> "half"]]

\* Every channel of the Principled BSDF fed by an image texture.
ChannelLinks ==
    { Link(TEX, IF s = "Alpha" THEN 2 ELSE 1, PB, s) :
        s \in SeqToSet(InputNames("BSDF_PRINCIPLED")) }

Tree(nodes, links) == [nodes |-> nodes, links |-> links, blend |-> "OPAQUE"]

MaterialShapes ==
    [ plain |-> DefaultTree,
      textured |->
        Tree((PB :> Principled) @@ (TEX :> UserNode("TEX_IMAGE"))
                @@ (MO :> UserNode("OUTPUT_MATERIAL")),
             ChannelLinks \cup { Link(PB, 1, MO, "Surface") }),
      diffuse |->
        Tree((DIFF :> Diffuse) @@ (TEX :> UserNode("TEX_IMAGE"))
                @@ (MO :> UserNode("OUTPUT_MATERIAL")),
             { Link(TEX, 1, DIFF, "Roughness"), Link(DIFF, 1, MO, "Surface") }),
      mixed |->
        Tree((MIX :> UserNode("MIX")) @@ (DISP :> UserNode("DISPLACEMENT"))
                @@ (MO :> UserNode("OUTPUT_MATERIAL")),
             { Link(MIX, 2, MO, "Surface"), Link(MIX, 1, MO, "Volume"),
               Link(DISP, 1, MO, "Displacement") }),
      headless |-> Tree((PB :> Principled), {}),
      twin |->
        Tree((PB :> Principled) @@ (TEX :> UserNode("TEX_IMAGE"))
                @@ (DISP :> UserNode("DISPLACEMENT"))
                @@ (MO :> UserNode("OUTPUT_MATERIAL"))
                @@ (MO2 :> UserNode("OUTPUT_MATERIAL")),
             ChannelLinks \cup
             { Link(PB, 1, MO, "Surface"), Link(PB, 1, MO2, "Surface"),
               Link(DISP, 1, MO2, "Displacement") }),
      bare |-> Tree((MO :> UserNode("OUTPUT_MATERIAL")), {}),
      volume |->
        [Tree((PB :> Principled)
                @@ (PB2 :> [Principled EXCEPT !.vals["Alpha"] = "half"])
                @@ (TEX :> UserNode("TEX_IMAGE"))
                @@ (MO :> UserNode("OUTPUT_MATERIAL")),
              ChannelLinks \cup
              { Link(PB, 1, MO, "Surface"), Link(PB2, 1, MO, "Volume"),
                Link(TEX, 1, MO, "Thickness") })
            EXCEPT !.blend = "BLEND"] ]

\* The materials M1 and M2 of the document.
MaterialPairs ==
    { << MaterialShapes[k], MaterialShapes.textured >> :
        k \in DOMAIN MaterialShapes }
    \cup { << MaterialShapes.plain, MaterialShapes.headless >>,
           << MaterialShapes.textured, MaterialShapes.plain >> }

\* The material slots of the objects O1 and O2.
SlotPairs ==
    { << << >>, << "M2" >> >>,
      << << "M1" >>, << "M1" >> >>,
      << << "M1", "M2" >>, << >> >>,
      << << "", "M1" >>, << "M2" >> >> }

\* The host settings, the snapshot and the bake position at rest.
IdleBake ==
    /\ scene \in { sc \in UserScenes : sc.engine = "BLENDER_EEVEE" }
    /\ saved = [f \in {} |-> ""]
    /\ pc = "idle"

(***************************************************************************)
(* The splice protocol: apply_node_to_objects and node_cleanup called in   *)
(* any order on a document whose recipes node_init has built               *)
(***************************************************************************)
Init ==
    /\ node_groups = AllRecipes
    /\ \E ms \in MaterialPairs : materials = ("M1" :> ms[1]) @@ ("M2" :> ms[2])
    /\ \E ss \in SlotPairs : slots = ("O1" :> ss[1]) @@ ("O2" :> ss[2])
    /\ texts = {}
    /\ images = {}
    /\ files = {}
    /\ IdleBake
    /\ \E pass \in Recipes : call = NoCall(pass)
    /\ \E use_texture \in BOOLEAN :
            /\ call.pass # NORMAL_NODE => use_texture
            /\ gd = [DefaultProps EXCEPT !.use_texture = use_texture]
    /\ pre = Found(<< >>, {})

\* The iteration orders of output_nodes that can differ.
FlipChoices(mats) ==
    IF \E m \in DOMAIN mats : Cardinality(OutputNodesOf(mats[m])) > 1
    THEN BOOLEAN
    ELSE { FALSE }

\* Another recipe than the given one.
OtherRecipe(name) == IF name = NORMAL_NODE THEN COLOR_NODE ELSE NORMAL_NODE

Apply(objs) ==
    /\ \E flip \in FlipChoices(materials) :
        \E r \in { apply_node_to_objects(materials, slots, texts, call.pass,
                                          objs, flip, gd.use_texture) } :
            /\ materials' = r.mats
            /\ slots' = r.slots
            /\ texts' = r.texts
            /\ call' = CallOf("apply", call.pass,
                              IF r.raised THEN "raised"
                              ELSE IF r.ok THEN "True" ELSE "False")
            /\ pre' = Found(objs,
                            { m \in DOMAIN r.mats :
                                \/ m \notin DOMAIN materials
                                \/ r.mats[m] # materials[m] })
    /\ UNCHANGED << images, files, node_groups, gd, scene, saved, pc >>

\* node_cleanup(None) returns at once.
Cleanup(setup_type) ==
    /\ IF setup_type = "None"
       THEN UNCHANGED << images, files, node_groups, materials, slots >>
       ELSE LET r == get_material_output_inputs(node_groups)
            IN  /\ node_groups' = r.groups
                /\ materials' = CleanMaterials(materials, setup_type, r.inputs)
                /\ slots' = SlotsWithout(slots,
                                         (DOMAIN materials) \ DOMAIN materials')
    /\ call' = CallOf("cleanup", setup_type, "None")
    /\ pre' = IF call.op = "apply" /\ call.name = setup_type
              THEN pre
              ELSE Found(<< >>, {})
    /\ UNCHANGED << images, files, texts, gd, scene, saved, pc >>

Next ==
    \/ \E objs \in ObjectLists : Apply(objs)
    \/ \E setup_type \in { call.pass, OtherRecipe(call.pass), "None" } :
            Cleanup(setup_type)

Spec == Init /\ [][Next]_vars

(***************************************************************************)
(* The recipes: node_init called at any time on a document whose recipes   *)
(* the user may have removed, with the property callbacks in between.      *)
(* node_init reads the trim camera and the scene properties while it       *)
(* builds: both are taken to exist, as they do when the add-on is set up.  *)
(***************************************************************************)
MaxRemoved == 2

\* A graph of the user's that bears the name of the introspection graph.
UserGraph ==
    (<< "Material Output", 0 >> :>
        [nodes |-> { << "Group Output", 0 >> }, inputs |-> {},
         params |-> "none"])

InitRecipes ==
    /\ node_groups \in { [n \in {} |-> 0], UserGraph, AllRecipes,
                         UserGraph @@ AllRecipes }
    /\ materials = [m \in {} |-> 0]
    /\ slots = [ob \in Objects |-> << >>]
    /\ texts = {}
    /\ images = {}
    /\ files = {}
    /\ \E flip_y \in BOOLEAN, gamma \in { "1", "2" } :
            gd = [DefaultProps EXCEPT !.flip_y = flip_y, !.gamma = gamma]
    /\ IdleBake
    /\ call = NoCall("")
    /\ pre = Found(<< >>, {})

NodeInit ==
    /\ node_groups' = node_init(node_groups, gd)
    /\ call' = CallOf("node_init", "", "None")
    /\ pre' = Found(<< >>, {})
    /\ UNCHANGED << images, files, materials, slots, texts, gd, scene, saved,
                    pc >>

\* The user removes a recipe from the document.
RemoveRecipe(name) ==
    /\ << name, 0 >> \in DOMAIN node_groups
    /\ Cardinality({ r \in Recipes : << r, 0 >> \notin DOMAIN node_groups })
            < MaxRemoved
    /\ node_groups' = [g \in (DOMAIN node_groups) \ { << name, 0 >> } |->
                            node_groups[g]]
    /\ call' = CallOf("remove", name, "None")
    /\ pre' = Found(<< >>, {})
    /\ UNCHANGED << images, files, materials, slots, texts, gd, scene, saved,
                    pc >>

\* Normals.update_flip_y: the property is set, then the callback writes
\* the recipe's Vector Math node; without the recipe the lookup raises
\* and the property keeps its new value.
SetFlipY(flip_y) ==
    /\ gd' = [gd EXCEPT !.flip_y = flip_y]
    /\ IF << NORMAL_NODE, 0 >> \in DOMAIN node_groups
       THEN /\ node_groups' =
                    [node_groups EXCEPT ![<< NORMAL_NODE, 0 >>].params =
                                            IF flip_y THEN "-.5" ELSE ".5"]
            /\ call' = CallOf("update_flip_y", NORMAL_NODE, "None")
       ELSE /\ node_groups' = node_groups
            /\ call' = CallOf("update_flip_y", NORMAL_NODE, "raised")
    /\ pre' = Found(<< >>, {})
    /\ UNCHANGED << images, files, materials, slots, texts, scene, saved, pc >>

\* Occlusion.update_gamma: the property is set, then the callback writes
\* the recipe's Gamma node; without the recipe the lookup raises and the
\* property keeps its new value.
SetGamma(gamma) ==
    /\ gd' = [gd EXCEPT !.gamma = gamma]
    /\ IF << OCCLUSION_NODE, 0 >> \in DOMAIN node_groups
       THEN /\ node_groups' =
                    [node_groups EXCEPT
                        ![<< OCCLUSION_NODE, 0 >>].params.gamma = gamma]
            /\ call' = CallOf("update_gamma", OCCLUSION_NODE, "None")
       ELSE /\ node_groups' = node_groups
            /\ call' = CallOf("update_gamma", OCCLUSION_NODE, "raised")
    /\ pre' = Found(<< >>, {})
    /\ UNCHANGED << images, files, materials, slots, texts, scene, saved, pc >>

NextRecipes ==
    \/ NodeInit
    \/ \E name \in Recipes : RemoveRecipe(name)
    \/ \E flip_y \in BOOLEAN : SetFlipY(flip_y)
    \/ \E gamma \in { "1", "2" } : SetGamma(gamma)

SpecRecipes == InitRecipes /\ [][NextRecipes]_vars

\* The graphs of the document that bear a recipe's name, numbered or not.
RecipeGraphs == { g \in DOMAIN node_groups : g[1] \in Recipes }

\* C4: after node_init, however many times it was called, the document
\* holds exactly one graph per recipe name, each with the node count a
\* single call on an empty document gives it; every graph that was there
\* before the call is as it was, a recipe that was missing is there, and
\* the call adds no graph but recipes (the introspection graph is gone).
C4_NodeInitIdempotent ==
    call.op = "node_init" =>
        /\ RecipeGraphs = { << r, 0 >> : r \in Recipes }
        /\ \A r \in Recipes :
            Cardinality(node_groups[<< r, 0 >>].nodes)
                = Cardinality(AllRecipes[<< r, 0 >>].nodes)
        /\ \A g \in DOMAIN pre.groups :
            g \in DOMAIN node_groups /\ node_groups[g] = pre.groups[g]
        /\ (DOMAIN node_groups) \ (DOMAIN pre.groups) \subseteq RecipeGraphs

\* node_init found a recipe a callback had written, which it left alone,
\* and found another missing, which it built from the current properties.
C4_Witness ==
    /\ call.op = "node_init"
    /\ << NORMAL_NODE, 0 >> \in DOMAIN pre.groups
    /\ pre.groups[<< NORMAL_NODE, 0 >>].params # RecipeParams(NORMAL_NODE, gd)
    /\ << OCCLUSION_NODE, 0 >> \notin DOMAIN pre.groups
    /\ node_groups[<< OCCLUSION_NODE, 0 >>].params.gamma = "2"
    /\ << "Material Output", 0 >> \in DOMAIN pre.groups

(***************************************************************************)
(* The bake: baker_init, then every chosen map's setup and cleanup in      *)
(* turn, then baker_cleanup.                                               *)
(***************************************************************************)
InitBaker ==
    /\ node_groups = AllRecipes
    /\ materials = [m \in {} |-> 0]
    /\ slots = [ob \in Objects |-> << >>]
    /\ texts = {}
    /\ images = {}
    /\ files = {}
    /\ \E coll_rendered \in BOOLEAN, format \in { "PNG", "TARGA", "OPEN_EXR" } :
            gd = Props(coll_rendered, format)
    /\ scene \in UserScenes
    /\ saved = [f \in {} |-> ""]
    /\ pc = "idle"
    /\ call = NoCall("")
    /\ pre = Found(<< >>, {})

BakerInit ==
    /\ pc = "idle"
    /\ LET r == baker_init(scene, gd)
       IN  scene' = r.scene /\ saved' = Remember(saved, r.saved)
    /\ pc' = "ready"
    /\ call' = CallOf("baker_init", "", "None")
    /\ pre' = Found(<< >>, {})
    /\ UNCHANGED << images, files, node_groups, materials, slots, texts, gd >>

MapSetup(map, engine, contrast) ==
    /\ pc = "ready"
    /\ engine \in BakeMaps[map]
    /\ LET r == MapSetupOf(map, scene, saved, engine, contrast,
                          gd.preview_state)
       IN  scene' = r.scene /\ saved' = r.saved
    /\ node_groups' = IF map = "Height"
                       THEN HeightSetup(node_groups, gd)
                       ELSE node_groups
    /\ pc' = map
    /\ call' = CallOf("setup", map, "None")
    /\ UNCHANGED << images, files, materials, slots, texts, gd, pre >>

MapCleanup ==
    /\ pc \in DOMAIN BakeMaps
    /\ scene' = MapCleanupOf(pc, scene, saved)
    /\ pc' = "ready"
    /\ call' = CallOf("cleanup", pc, "None")
    /\ UNCHANGED << images, files, node_groups, materials, slots, texts, gd,
                    saved, pre >>

BakerCleanup ==
    /\ pc = "ready"
    /\ LET r == baker_cleanup(scene, saved)
       IN  scene' = r.scene /\ saved' = r.saved
    /\ pc' = "done"
    /\ call' = CallOf("baker_cleanup", "", "None")
    /\ UNCHANGED << images, files, node_groups, materials, slots, texts, gd,
                    pre >>

NextBaker ==
    \/ BakerInit
    \/ \E map \in DOMAIN BakeMaps :
        \E engine \in { "blender_eevee", "cycles", "blender_workbench" } :
            \E contrast \in Contrasts : MapSetup(map, engine, contrast)
    \/ MapCleanup
    \/ BakerCleanup

SpecBaker == InitBaker /\ [][NextBaker]_vars

\* C1: when baker_cleanup has run, every setting that baker_init captured
\* has the value it had immediately before baker_init, whatever maps were
\* set up and cleaned up in between and whatever their engines.
C1_SettingsRestored ==
    pc = "done" =>
        \A f \in DOMAIN SavedFields :
            scene[SavedFields[f]] = pre.scene[SavedFields[f]]

(***************************************************************************)
(* The bake maps one at a time: after baker_init, a map's setup and its    *)
(* cleanup, observed with the map's properties and the settings its setup  *)
(* found.                                                                  *)
(***************************************************************************)
MaxRounds == 1

\* A call on a map: its engine and contrast properties, the settings as
\* its setup found them and the number of maps set up so far.
MapCall(op, map, engine, contrast, before, round) ==
    [pass |-> "", op |-> op, name |-> map, result |-> "None",
     after |-> FALSE, engine |-> engine, contrast |-> contrast,
     before |-> before, round |-> round]

InitMaps ==
    /\ node_groups = AllRecipes
    /\ materials = [m \in {} |-> 0]
    /\ slots = [ob \in Objects |-> << >>]
    /\ texts = {}
    /\ images = {}
    /\ files = {}
    /\ \E coll_rendered \in BOOLEAN, preview_state \in BOOLEAN :
            gd = [Props(coll_rendered, "PNG") EXCEPT
                    !.preview_state = preview_state]
    /\ \E sc \in UserScenes :
            /\ scene = baker_init(sc, gd).scene
            /\ saved = baker_init(sc, gd).saved
            /\ pre = [mats |-> materials, slots |-> slots,
                      groups |-> node_groups, scene |-> sc,
                      objs |-> << >>, spliced |-> {}]
    /\ pc = "ready"
    /\ call = MapCall("baker_init", "", "", "", scene, 0)

SetupMap(map, engine, contrast) ==
    /\ pc = "ready"
    /\ call.round < MaxRounds
    /\ engine \in BakeMaps[map]
    /\ LET r == MapSetupOf(map, scene, saved, engine, contrast,
                          gd.preview_state)
       IN  scene' = r.scene /\ saved' = r.saved
    /\ node_groups' = IF map = "Height"
                       THEN HeightSetup(node_groups, gd)
                       ELSE node_groups
    /\ pc' = map
    /\ call' = MapCall("setup", map, engine, contrast, scene, call.round + 1)
    /\ UNCHANGED << images, files, materials, slots, texts, gd, pre >>

CleanupMap ==
    /\ pc \in DOMAIN BakeMaps
    /\ scene' = MapCleanupOf(pc, scene, saved)
    /\ pc' = "ready"
    /\ call' = MapCall("cleanup", pc, call.engine, call.contrast, call.before,
                       call.round)
    /\ UNCHANGED << images, files, node_groups, materials, slots, texts, gd,
                    saved, pre >>

\* The update callback of a map's engine, samples and contrast properties,
\* and the call a caller makes with whatever engine the descriptor holds:
\* the function looks at no SUPPORTED_ENGINES.  check is True in the
\* callback and whatever the caller passes otherwise.
ApplyRenderSettings(map, engine, contrast) ==
    /\ pc = "ready"
    /\ call.round < MaxRounds
    /\ \E check \in BOOLEAN :
        /\ scene' = apply_render_settings(scene, engine, contrast, check,
                                          gd.preview_state)
        /\ call' = [check |-> check]
                        @@ MapCall("apply_render_settings", map, engine,
                                   contrast, scene, call.round + 1)
    /\ UNCHANGED << images, files, node_groups, materials, slots, texts, gd,
                    saved, pc, pre >>

NextMaps ==
    \/ \E map \in DOMAIN BakeMaps :
        \E engine \in { "blender_eevee", "cycles", "blender_workbench" } :
            \E contrast \in Contrasts : SetupMap(map, engine, contrast)
    \/ CleanupMap
    \/ \E map \in DOMAIN BakeMaps :
        \E engine \in { "blender_eevee", "cycles", "blender_workbench" } :
            \E contrast \in Contrasts :
                ApplyRenderSettings(map, engine, contrast)

SpecMaps == InitMaps /\ [][NextMaps]_vars

\* What apply_render_settings leaves in the settings it writes.
AppliedValue(k, engine, contrast) ==
    CASE k = "engine" -> Upper(engine)
      [] k \in { "taa_render_samples", "taa_samples" } -> MapDefaults.samples
      [] k \in { "samples", "preview_samples" } -> MapDefaults.samples_cycles
      [] k \in { "render_aa", "viewport_aa" } -> MapDefaults.samples_workbench
      [] k = "display_device" -> "sRGB"
      [] k = "view_transform" -> "Standard"
      [] k = "exposure" -> "0"
      [] k = "gamma" -> "1"
      [] k = "look" -> ReplaceUnderscores(contrast)

\* C11 as stated: after a map's setup and cleanup, the engine, the
\* sampling fields of the chosen engine, the display device, the view
\* transform, the exposure, the gamma and the look have the values they
\* had before the setup.
C11_OverridesReverted ==
    (pc = "ready" /\ call.op = "cleanup") =>
        \A k \in PerMapOverrides(call.engine) : scene[k] = call.before[k]

\* C11 as amended: after a map's setup and cleanup, each of those
\* settings still has the value the setup gave it; the map's cleanup
\* reverts none of them.
C11_OverridesKept ==
    (pc = "ready" /\ call.op = "cleanup") =>
        \A k \in PerMapOverrides(call.engine) :
            scene[k] = AppliedValue(k, call.engine, call.contrast)

\* A map was set up and cleaned up, and its engine, its sampling and its
\* look are not what they were before its setup.
C11_Witness ==
    /\ pc = "ready"
    /\ call.op = "cleanup"
    /\ call.engine = "cycles"
    /\ scene.engine # call.before.engine
    /\ scene.samples # call.before.samples
    /\ scene.look = "High Contrast"
    /\ call.before.look # "High Contrast"

\* C19: after Curvature's setup and cleanup the cavity type, the cavity
\* and curvature ridge factors, the cavity and curvature valley factors,
\* the single colour and the matcap SSAO distance have the values they
\* had before the setup; after Occlusion's setup and cleanup so have the
\* Eevee overscan flag and the overscan size.
C19_MapSettingsRestored ==
    (pc = "ready" /\ call.op = "cleanup") =>
        /\ call.name = "Curvature" =>
                \A k \in { "cavity_type", "cavity_ridge_factor",
                           "curvature_ridge_factor", "cavity_valley_factor",
                           "curvature_valley_factor", "single_color",
                           "matcap_ssao_distance" } :
                    scene[k] = call.before[k]
        /\ call.name = "Occlusion" =>
                \A k \in { "use_overscan", "overscan_size" } :
                    scene[k] = call.before[k]

C19_Witness ==
    /\ pc = "ready"
    /\ call.op = "cleanup"
    /\ call.name = "Curvature"
    /\ call.before.cavity_type = "WORLD"
    /\ call.before.curvature_ridge_factor = "1"
    /\ scene.cavity_type = "WORLD"
    /\ scene.curvature_ridge_factor = "1"
    /\ scene.color_type = "SINGLE"

\* C13: apply_render_settings of any descriptor with any engine, one of
\* its SUPPORTED_ENGINES or not, returns normally and leaves
\* scene.render.engine at the upper-cased engine.
C13_EngineNeverRejected ==
    call.op = "apply_render_settings" =>
        /\ call.result = "None"
        /\ call.engine = "blender_eevee" => scene.engine = "BLENDER_EEVEE"
        /\ call.engine = "cycles" => scene.engine = "CYCLES"
        /\ call.engine = "blender_workbench" =>
                scene.engine = "BLENDER_WORKBENCH"

C13_Witness ==
    /\ call.op = "apply_render_settings"
    /\ call.name = "Curvature"
    /\ call.engine = "cycles"
    /\ call.engine \notin BakeMaps["Curvature"]
    /\ call.before.engine = "BLENDER_EEVEE"
    /\ scene.engine = "CYCLES"

(***************************************************************************)
(* The update callbacks of the maps' numeric properties, with and without  *)
(* a live preview.                                                         *)
(***************************************************************************)
InitPreview ==
    /\ node_groups = AllRecipes
    /\ materials = [m \in {} |-> 0]
    /\ slots = [ob \in Objects |-> << >>]
    /\ texts = {}
    /\ images = {}
    /\ files = {}
    /\ \E preview_state \in BOOLEAN :
            gd = [DefaultProps EXCEPT !.preview_state = preview_state]
    /\ scene \in UserScenes
    /\ saved = [f \in {} |-> ""]
    /\ pc = "idle"
    /\ call = NoCall("")
    /\ pre = Found(<< >>, {})

\* Occlusion.update_distance: the property is set, then the callback
\* writes the recipe's Ambient Occlusion node.
SetDistance(distance) ==
    /\ gd' = [gd EXCEPT !.distance = distance]
    /\ IF << OCCLUSION_NODE, 0 >> \in DOMAIN node_groups
       THEN /\ node_groups' =
                    [node_groups EXCEPT
                        ![<< OCCLUSION_NODE, 0 >>].params.distance = distance]
            /\ call' = CallOf("update_distance", OCCLUSION_NODE, "None")
       ELSE /\ node_groups' = node_groups
            /\ call' = CallOf("update_distance", OCCLUSION_NODE, "raised")
    /\ pre' = Found(<< >>, {})
    /\ UNCHANGED << images, files, materials, slots, texts, scene, saved, pc >>

\* Curvature.ridge is set, then update_curvature runs.
SetRidge(ridge) ==
    /\ gd' = [gd EXCEPT !.ridge = ridge]
    /\ scene' = update_curvature(scene, gd')
    /\ call' = CallOf("update_curvature", "ridge", "None")
    /\ pre' = Found(<< >>, {})
    /\ UNCHANGED << images, files, node_groups, materials, slots, texts, saved,
                    pc >>

\* Curvature.valley is set, then update_curvature runs.
SetValley(valley) ==
    /\ gd' = [gd EXCEPT !.valley = valley]
    /\ scene' = update_curvature(scene, gd')
    /\ call' = CallOf("update_curvature", "valley", "None")
    /\ pre' = Found(<< >>, {})
    /\ UNCHANGED << images, files, node_groups, materials, slots, texts, saved,
                    pc >>

\* Height.method is set, then update_method runs.
SetMethod(method) ==
    /\ gd' = [gd EXCEPT !.height_method = method]
    /\ node_groups' = update_method(node_groups, gd')
    /\ call' = CallOf("update_method", gd.height_method, "None")
    /\ pre' = Found(<< >>, {})
    /\ UNCHANGED << images, files, materials, slots, texts, scene, saved, pc >>

\* Height.distance is set, then update_guide runs.
SetHeightDistance(distance) ==
    /\ gd' = [gd EXCEPT !.height_distance = distance]
    /\ node_groups' = update_guide(node_groups, gd')
    /\ call' = CallOf("update_guide", "distance", "None")
    /\ pre' = Found(<< >>, {})
    /\ UNCHANGED << images, files, materials, slots, texts, scene, saved, pc >>

NextPreview ==
    \/ \E method \in { "AUTO", "MANUAL" } : SetMethod(method)
    \/ \E distance \in { 1, 2 } : SetHeightDistance(distance)
    \/ \E gamma \in { "1", "2" } : SetGamma(gamma)
    \/ \E distance \in { "1", "0.5" } : SetDistance(distance)
    \/ \E ridge \in { "2", "1" } : SetRidge(ridge)
    \/ \E valley \in { "1.5", "1" } : SetValley(valley)

SpecPreview == InitPreview /\ [][NextPreview]_vars

OcclusionParams(groups) == groups[<< OCCLUSION_NODE, 0 >>].params

NumericCallbacks == { "update_gamma", "update_distance", "update_curvature" }

\* C14 as stated: a change of Occlusion gamma or distance or of Curvature
\* ridge or valley made with no live preview leaves the recipe nodes and
\* the shading settings as they were, and one made during a live preview
\* leaves the new value in the recipe node or the shading fields.
C14_PushedIffPreview ==
    call.op \in NumericCallbacks =>
        IF gd.preview_state
        THEN /\ call.op = "update_gamma" =>
                    OcclusionParams(node_groups).gamma = gd.gamma
             /\ call.op = "update_distance" =>
                    OcclusionParams(node_groups).distance = gd.distance
             /\ call.op = "update_curvature" =>
                    /\ scene.cavity_ridge_factor = gd.ridge
                    /\ scene.curvature_ridge_factor = gd.ridge
                    /\ scene.curvature_valley_factor = gd.valley
        ELSE node_groups = pre.groups /\ scene = pre.scene

\* C14 as amended: a change of Curvature ridge or valley reaches the
\* shading fields exactly when a live preview is active; a change of
\* Occlusion gamma or distance reaches the recipe's Gamma or Ambient
\* Occlusion node whether or not a preview is active.
C14_ShadingIffPreviewRecipeAlways ==
    /\ call.op = "update_gamma" =>
            /\ OcclusionParams(node_groups).gamma = gd.gamma
            /\ scene = pre.scene
    /\ call.op = "update_distance" =>
            /\ OcclusionParams(node_groups).distance = gd.distance
            /\ scene = pre.scene
    /\ call.op = "update_curvature" =>
            /\ node_groups = pre.groups
            /\ IF gd.preview_state
               THEN /\ scene.cavity_ridge_factor = gd.ridge
                    /\ scene.curvature_ridge_factor = gd.ridge
                    /\ scene.curvature_valley_factor = gd.valley
               ELSE scene = pre.scene

C14_Witness ==
    /\ ~gd.preview_state
    /\ call.op = "update_gamma"
    /\ gd.gamma = "2"
    /\ OcclusionParams(pre.groups).gamma = "1"
    /\ OcclusionParams(node_groups).gamma = "2"
    /\ gd.ridge = "1"
    /\ scene.curvature_ridge_factor # "1"

HeightRange(groups) ==
    << groups[<< HEIGHT_NODE, 0 >>].params.from_min,
       groups[<< HEIGHT_NODE, 0 >>].params.from_max >>

Operators == { "A", "B" }

\* pc is the sequence of the calls made so far, << operator, function >>.
Called(self, op) == \E i \in 1..Len(pc) : pc[i] = << self, op >>

InitReentrant ==
    /\ node_groups = AllRecipes
    /\ materials = [m \in {} |-> 0]
    /\ slots = [ob \in Objects |-> << >>]
    /\ texts = {}
    /\ images = {}
    /\ files = {}
    /\ \E coll_rendered \in BOOLEAN, format \in { "PNG", "TARGA", "OPEN_EXR" } :
            gd = Props(coll_rendered, format)
    /\ scene \in UserScenes \cup
                { [sc EXCEPT !.world_use_nodes = "False"] :
                    sc \in { u \in UserScenes :
                                u.world_use_nodes # "no world" } }
    /\ saved = [self \in Operators |-> [f \in {} |-> ""]]
    /\ pc = << >>
    /\ call = NoCall("")
    /\ pre = Found(<< >>, {})

OperatorInit(self) ==
    /\ ~Called(self, "baker_init")
    /\ LET r == baker_init(scene, gd)
       IN  /\ scene' = r.scene
           /\ saved' = [saved EXCEPT ![self] = Remember(saved[self], r.saved)]
    /\ pc' = Append(pc, << self, "baker_init" >>)
    /\ call' = CallOf("baker_init", self, "None")
    /\ pre' = IF pc = << >> THEN Found(<< >>, {}) ELSE pre
    /\ UNCHANGED << images, files, node_groups, materials, slots, texts, gd >>

OperatorCleanup(self) ==
    /\ Called(self, "baker_init")
    /\ ~Called(self, "baker_cleanup")
    /\ LET r == baker_cleanup(scene, saved[self])
       IN  /\ scene' = r.scene
           /\ saved' = [saved EXCEPT ![self] = r.saved]
    /\ pc' = Append(pc, << self, "baker_cleanup" >>)
    /\ call' = CallOf("baker_cleanup", self, "None")
    /\ UNCHANGED << images, files, node_groups, materials, slots, texts, gd,
                    pre >>

NextReentrant ==
    \/ \E self \in Operators : OperatorInit(self)
    \/ \E self \in Operators : OperatorCleanup(self)

SpecReentrant == InitReentrant /\ [][NextReentrant]_vars

Interleaved ==
    << << "A", "baker_init" >>, << "B", "baker_init" >>,
       << "A", "baker_cleanup" >>, << "B", "baker_cleanup" >> >>

OneAfterTheOther ==
    << << "A", "baker_init" >>, << "A", "baker_cleanup" >>,
       << "B", "baker_init" >>, << "B", "baker_cleanup" >> >>

\* C12: after A.baker_init, B.baker_init, A.baker_cleanup, B.baker_cleanup
\* at least one captured setting differs from its value before
\* A.baker_init; after A.baker_init, A.baker_cleanup, B.baker_init,
\* B.baker_cleanup every captured setting has that value again.
C12_InterleavingCorrupts ==
    /\ pc = Interleaved =>
            \E f \in DOMAIN SavedFields :
                scene[SavedFields[f]] # pre.scene[SavedFields[f]]
    /\ pc = OneAfterTheOther =>
            \A f \in DOMAIN SavedFields :
                scene[SavedFields[f]] = pre.scene[SavedFields[f]]

C12_Witness ==
    /\ pc = Interleaved
    /\ saved["B"].savedUseSequencer = "False"
    /\ pre.scene.use_sequencer = "True"
    /\ scene.use_sequencer = "False"

\* C20 as stated: right after baker_init the film is transparent and the
\* colour mode RGBA when the background plane is not rendered, and the
\* film is opaque and the colour mode RGB when it is.
C20_FilmFollowsPlane ==
    (Len(pc) = 1 /\ call.op = "baker_init") =>
        IF ~gd.coll_rendered
        THEN scene.film_transparent = "True" /\ scene.color_mode = "RGBA"
        ELSE scene.film_transparent = "False" /\ scene.color_mode = "RGB"

\* C20 as amended: right after baker_init the film is transparent and the
\* colour mode RGBA when the background plane is not rendered; when it is
\* rendered the colour mode is RGB and the film transparency is what it
\* was before the call.
C20_FilmKeptWhenPlaneRendered ==
    (Len(pc) = 1 /\ call.op = "baker_init") =>
        IF ~gd.coll_rendered
        THEN scene.film_transparent = "True" /\ scene.color_mode = "RGBA"
        ELSE /\ scene.film_transparent = pre.scene.film_transparent
             /\ scene.color_mode = "RGB"

C20_Witness ==
    /\ Len(pc) = 1
    /\ call.op = "baker_init"
    /\ gd.coll_rendered
    /\ pre.scene.film_transparent = "True"
    /\ pre.scene.color_mode # "RGB"
    /\ scene.film_transparent = "True"
    /\ scene.color_mode = "RGB"

(***************************************************************************)
(* The read accessors over the configured maps: get_bakers, get_bake_maps  *)
(***************************************************************************)
\* Global.ALL_MAP_IDS: the names of the map collections of the scene
\* property group, in the order of the variants.
ALL_MAP_IDS ==
    << "normals", "curvature", "occlusion", "height", "alpha", "id",
       "color", "emissive", "roughness", "metalness" >>

MaxPerCollection == 2

\* A map of a collection, as far as get_bake_maps looks at it.
MapFlags == [enabled : BOOLEAN, visibility : BOOLEAN]

MapLists == UNION { [1..n -> MapFlags] : n \in 0..MaxPerCollection }

\* The ids the property group may lack a collection for: none, or the
\* first, an inner or the last id.
Unregistered ==
    { {} } \cup { { ALL_MAP_IDS[i] } : i \in { 1, 4, Len(ALL_MAP_IDS) } }

\* get_bakers that gives up at the first id without a collection.
RECURSIVE GetBakersUntilMissing(_, _, _)
GetBakersUntilMissing(colls, i, acc) ==
    IF i > Len(ALL_MAP_IDS)
    THEN acc
    ELSE IF ALL_MAP_IDS[i] \in DOMAIN colls
         THEN GetBakersUntilMissing(colls, i + 1,
                [acc EXCEPT !.result = Append(@, ALL_MAP_IDS[i])])
         ELSE [acc EXCEPT !.printed = Append(@, ALL_MAP_IDS[i])]

\* The loop of get_bakers from the i-th id on: getattr(gd, name) appends
\* the collection, an AttributeError prints the name.
RECURSIVE GetBakersFrom(_, _, _)
GetBakersFrom(colls, i, acc) ==
    IF i > Len(ALL_MAP_IDS)
    THEN acc
    ELSE IF ALL_MAP_IDS[i] \in DOMAIN colls
         THEN GetBakersFrom(colls, i + 1,
                [acc EXCEPT !.result = Append(@, ALL_MAP_IDS[i])])
         ELSE GetBakersFrom(colls, i + 1,
                [acc EXCEPT !.printed = Append(@, ALL_MAP_IDS[i])])

\* The collections found, by id, and the diagnostics printed.
get_bakers(colls) ==
    GetBakersFrom(colls, 1, [result |-> << >>, printed |-> << >>])

\* A filter that looks at the enabled flag alone.
KeepsEnabled(bake_map, enabled_only) == ~enabled_only \/ bake_map.enabled

\* not (enabled_only and not (bake_map.enabled and bake_map.visibility))
Keeps(bake_map, enabled_only) ==
    ~(enabled_only /\ ~(bake_map.enabled /\ bake_map.visibility))

\* for bake_map in baker: the maps kept, each as << id, position >>.
RECURSIVE MapsOfBaker(_, _, _, _, _)
MapsOfBaker(colls, id, enabled_only, i, acc) ==
    IF i > Len(colls[id])
    THEN acc
    ELSE MapsOfBaker(colls, id, enabled_only, i + 1,
            IF Keeps(colls[id][i], enabled_only)
            THEN Append(acc, << id, i >>)
            ELSE acc)

RECURSIVE MapsOfBakers(_, _, _, _, _)
MapsOfBakers(colls, bakers, enabled_only, i, acc) ==
    IF i > Len(bakers)
    THEN acc
    ELSE MapsOfBakers(colls, bakers, enabled_only, i + 1,
            MapsOfBaker(colls, bakers[i], enabled_only, 1, acc))

get_bake_maps(colls, enabled_only) ==
    LET bakers == get_bakers(colls)
    IN  [result |-> MapsOfBakers(colls, bakers.result, enabled_only, 1, << >>),
         printed |-> bakers.printed]

\* The property group: one collection is the user's own list of maps, the
\* others hold one map each.
InitAccessors ==
    /\ node_groups = AllRecipes
    /\ materials = [m \in {} |-> 0]
    /\ slots = [ob \in Objects |-> << >>]
    /\ texts = {}
    /\ images = {}
    /\ files = {}
    /\ \E missing \in Unregistered, other \in MapFlags, list \in MapLists :
        \E own \in { ALL_MAP_IDS[i] : i \in 1..Len(ALL_MAP_IDS) } \ missing :
            gd = [collections |->
                    [id \in { ALL_MAP_IDS[i] : i \in 1..Len(ALL_MAP_IDS) }
                                \ missing |->
                        IF id = own THEN list ELSE << other >>]]
                 @@ DefaultProps
    /\ IdleBake
    /\ call = NoCall("")
    /\ pre = Found(<< >>, {})

\* A call of an accessor: what it returned, what it printed and the
\* property group it read.
Accessed(op, enabled_only, r) ==
    [pass |-> "", op |-> op, name |-> "", result |-> r.result,
     after |-> FALSE, enabled_only |-> enabled_only, printed |-> r.printed,
     props |-> gd]

GetBakers ==
    /\ call' = Accessed("get_bakers", FALSE, get_bakers(gd.collections))
    /\ pre' = Found(<< >>, {})
    /\ UNCHANGED << images, files, node_groups, materials, slots, texts, gd,
                    scene, saved, pc >>

GetBakeMaps(enabled_only) ==
    /\ call' = Accessed("get_bake_maps", enabled_only,
                        get_bake_maps(gd.collections, enabled_only))
    /\ pre' = Found(<< >>, {})
    /\ UNCHANGED << images, files, node_groups, materials, slots, texts, gd,
                    scene, saved, pc >>

NextAccessors ==
    \/ GetBakers
    \/ \E enabled_only \in BOOLEAN : GetBakeMaps(enabled_only)

SpecAccessors == InitAccessors /\ [][NextAccessors]_vars

IdRank(id) == CHOOSE i \in 1..Len(ALL_MAP_IDS) : ALL_MAP_IDS[i] = id

\* Every map of every collection, as << id, position >>.
ConfiguredMaps ==
    UNION { { << id, i >> : i \in 1..Len(gd.collections[id]) } :
                id \in DOMAIN gd.collections }

Listed(seq) == { seq[i] : i \in 1..Len(seq) }

\* C15: get_bake_maps(enabled_only=True) returns exactly the maps whose
\* enabled and visibility flags are both true, and
\* get_bake_maps(enabled_only=False) every map; each map once, in the
\* order of ALL_MAP_IDS and then of the position in its collection; the
\* call leaves the document and the property group as they were.
C15_BakeMapsFilteredInOrder ==
    call.op = "get_bake_maps" =>
        LET r == call.result
        IN  /\ Listed(r) =
                    { m \in ConfiguredMaps :
                        call.enabled_only =>
                            /\ gd.collections[m[1]][m[2]].enabled
                            /\ gd.collections[m[1]][m[2]].visibility }
            /\ \A i, j \in 1..Len(r) :
                    i < j =>
                        \/ IdRank(r[i][1]) < IdRank(r[j][1])
                        \/ r[i][1] = r[j][1] /\ r[i][2] < r[j][2]
            /\ gd = call.props
            /\ scene = pre.scene
            /\ node_groups = pre.groups
            /\ materials = pre.mats

C15_Witness ==
    /\ call.op = "get_bake_maps"
    /\ call.enabled_only
    /\ Len(gd.collections["occlusion"]) = 2
    /\ gd.collections["occlusion"][1].enabled
    /\ ~gd.collections["occlusion"][1].visibility
    /\ gd.collections["occlusion"][2].enabled
    /\ gd.collections["occlusion"][2].visibility
    /\ << "occlusion", 1 >> \notin Listed(call.result)
    /\ << "occlusion", 2 >> \in Listed(call.result)
    /\ << "height", 1 >> \in Listed(call.result)

\* C16: for an id of ALL_MAP_IDS without a collection, get_bakers prints
\* a diagnostic naming it, raises nothing and returns the collections of
\* all the other ids in the order of ALL_MAP_IDS.
C16_MissingBakerSkipped ==
    call.op = "get_bakers" =>
        LET r == call.result
        IN  /\ Listed(r) = DOMAIN gd.collections
            /\ \A i, j \in 1..Len(r) : i < j => IdRank(r[i]) < IdRank(r[j])
            /\ Listed(call.printed) = Listed(ALL_MAP_IDS) \ DOMAIN gd.collections

C16_Witness ==
    /\ call.op = "get_bakers"
    /\ "height" \notin DOMAIN gd.collections
    /\ call.printed = << "height" >>
    /\ Len(call.result) = Len(ALL_MAP_IDS) - 1
    /\ call.result[Len(call.result)] = "metalness"

(***************************************************************************)
(* reimport_as_material: the exported images wired into one material       *)
(***************************************************************************)
REIMPORT_MAT_NAME == "GD_Reimport"

GD_PREFIX == "GD_"

COLOR_ID == "color"

\* get_format(): the extension of the export format.
Extension(format) ==
    CASE format = "PNG" -> ".png"
      [] format = "TARGA" -> ".tga"
      [] format = "OPEN_EXR" -> ".exr"

\* f'{gd.export_name}_{suffix}' + get_format(), for the export name
\* "untitled"
FileName(suffix, format) ==
    CASE << suffix, Extension(format) >> = << "normal", ".png" >> ->
            "untitled_normal.png"
      [] << suffix, Extension(format) >> = << "normal", ".tga" >> ->
            "untitled_normal.tga"
      [] << suffix, Extension(format) >> = << "normal", ".exr" >> ->
            "untitled_normal.exr"
      [] << suffix, Extension(format) >> = << "alpha", ".png" >> ->
            "untitled_alpha.png"
      [] << suffix, Extension(format) >> = << "alpha", ".tga" >> ->
            "untitled_alpha.tga"
      [] << suffix, Extension(format) >> = << "alpha", ".exr" >> ->
            "untitled_alpha.exr"

\* os.path.join(bpy.path.abspath(gd.export_path), <file name>)
ExportFile(props, suffix) ==
    << props.export_path, FileName(suffix, props.format) >>

\* Global.GD_PREFIX + name
ImageName(name) ==
    CASE name = "Alpha" -> "GD_Alpha"
      [] name = "Roughness" -> "GD_Roughness"
      [] name = "color" -> "GD_color"

\* name not in (Global.COLOR_ID): the parentheses make no tuple, the test
\* is whether name is a substring of COLOR_ID.
NotInColorId(name) ==
    name \notin { "", "c", "o", "l", "r", "co", "ol", "lo", "or", "col",
                  "olo", "lor", "colo", "olor", "color" }

MaxReimports == 2

MaxNames == 2

Suffixes == { "normal", "alpha" }

MapNames == { "Alpha", "Roughness", "color" }

\* A step of the loop that makes a new image node for every name.
ReimportNameAnew(st, name, path, exists) ==
    LET nm == UniqueName(st.tree.nodes, ImageName(name))
    IN  [st EXCEPT !.tree = AddNode(st.tree, nm,
                                [type |-> "TEX_IMAGE", tree |-> "",
                                 vals |-> NoVals, image |-> << "", 0 >>])]

\* One name of the loop: the image datablock of that name is removed, the
\* image node is looked up or made, and only if the file exists is it
\* loaded, marked Non-Color and linked to the BSDF input of the same name.
ReimportName(st, name, path, exists) ==
    LET gone == { im \in st.images : im.name # << ImageName(name), 0 >> }
        found == << ImageName(name), 0 >> \in DOMAIN st.tree.nodes
        nm == << ImageName(name), 0 >>
        noded ==
            IF found
            THEN st.tree
            ELSE AddNode(st.tree, nm,
                    [type |-> "TEX_IMAGE", tree |-> "", vals |-> NoVals,
                     image |-> << "", 0 >>])
        loaded ==
            [name |-> UniqueName([n \in { im.name : im \in gone } |-> 0],
                                 path[2]),
             filepath |-> path,
             colorspace |-> IF NotInColorId(name) THEN "Non-Color" ELSE "sRGB"]
        imaged == [noded EXCEPT !.nodes[nm].image = loaded.name]
        linkable ==
            /\ name \in SeqToSet(InputNames("BSDF_PRINCIPLED"))
            /\ name \in SeqToSet(OutputNames("TEX_IMAGE"))
    IN  IF ~exists
        THEN [tree |-> noded, images |-> gone]
        ELSE [tree |->
                IF linkable
                THEN NewLink(imaged, << "Principled BSDF", 0 >>, name, nm,
                             OutputByName("TEX_IMAGE", name))
                ELSE imaged,
              images |-> gone \cup { loaded }]

RECURSIVE ReimportNames(_, _, _, _, _)
ReimportNames(st, map_names, i, path, exists) ==
    IF i > Len(map_names)
    THEN st
    ELSE ReimportNames(ReimportName(st, map_names[i], path, exists),
                       map_names, i + 1, path, exists)

\* The materials and the images after reimport_as_material.
reimport_as_material(mats, imgs, disk, props, suffix, map_names) ==
    LET mat == IF REIMPORT_MAT_NAME \in DOMAIN mats
               THEN mats[REIMPORT_MAT_NAME]
               ELSE DefaultTree
        path == ExportFile(props, suffix)
        r == ReimportNames([tree |-> mat, images |-> imgs], map_names, 1,
                           path, path \in disk)
    IN  [mats |-> (REIMPORT_MAT_NAME :> r.tree) @@ mats, images |-> r.images]

InitReimport ==
    /\ node_groups = AllRecipes
    /\ materials = [m \in {} |-> 0]
    /\ slots = [ob \in Objects |-> << >>]
    /\ texts = {}
    /\ images \in { {}, { [name |-> << ImageName("Alpha"), 0 >>,
                          filepath |-> << "//textures", "alpha.png" >>,
                          colorspace |-> "sRGB"] } }
    /\ gd = DefaultProps
    /\ files \in SUBSET { ExportFile(gd, suffix) : suffix \in Suffixes }
    /\ scene \in { sc \in UserScenes : sc.engine = "BLENDER_EEVEE" }
    /\ saved = [f \in {} |-> ""]
    /\ pc = 0
    /\ call = NoCall("")
    /\ pre = Found(<< >>, {})

\* pc counts the calls made.
Reimport(suffix, map_names) ==
    /\ pc < MaxReimports
    /\ LET r == reimport_as_material(materials, images, files, gd, suffix,
                                     map_names)
       IN  materials' = r.mats /\ images' = r.images
    /\ pc' = pc + 1
    /\ call' = [pass |-> "", op |-> "reimport_as_material", name |-> suffix,
                result |-> "None", after |-> FALSE, map_names |-> map_names,
                images |-> images]
    /\ pre' = Found(<< >>, {})
    /\ UNCHANGED << node_groups, slots, texts, files, gd, scene, saved >>

NextReimport ==
    \E suffix \in Suffixes :
        \E map_names \in UNION { [1..n -> MapNames] : n \in 0..MaxNames } :
            Reimport(suffix, map_names)

SpecReimport == InitReimport /\ [][NextReimport]_vars

ImageNodes(tree, name) ==
    { n \in DOMAIN tree.nodes : n[1] = ImageName(name) }

LoadedFrom(imgs, path) ==
    { im.name : im \in { i \in imgs : i.filepath = path } }

\* C17: every name is read from the file export_path/export_name_suffix
\* plus the format's extension; when that file is missing no image is
\* loaded and no link is made for the name, and the names after it are
\* still given their image node; when it exists the node of each name
\* holds an image loaded from it; however often the function is called,
\* there is one reimport material and one image node per name.
C17_ReimportSkipsMissingAndReuses ==
    call.op = "reimport_as_material" =>
        LET tree == materials[REIMPORT_MAT_NAME]
            path == << gd.export_path,
                       IF call.name = "normal" THEN "untitled_normal.png"
                                               ELSE "untitled_alpha.png" >>
            names == SeqToSet(call.map_names)
            before == IF REIMPORT_MAT_NAME \in DOMAIN pre.mats
                      THEN pre.mats[REIMPORT_MAT_NAME]
                      ELSE DefaultTree
        IN  /\ DOMAIN materials = { REIMPORT_MAT_NAME }
            /\ \A name \in names :
                    ImageNodes(tree, name) = { << ImageName(name), 0 >> }
            /\ path \notin files =>
                    /\ images \subseteq call.images
                    /\ tree.links = before.links
                    /\ \A n \in DOMAIN before.nodes :
                            tree.nodes[n] = before.nodes[n]
            /\ path \in files =>
                    \A name \in names :
                        tree.nodes[<< ImageName(name), 0 >>].image
                            \in LoadedFrom(images, path)

C17_Witness ==
    /\ call.op = "reimport_as_material"
    /\ pc = 2
    /\ call.name = "normal"
    /\ ExportFile(gd, "normal") \notin files
    /\ ExportFile(gd, "alpha") \in files
    /\ call.map_names = << "Alpha", "Roughness" >>
    /\ << ImageName("Roughness"), 0 >> \notin DOMAIN
            pre.mats[REIMPORT_MAT_NAME].nodes
    /\ << ImageName("Alpha"), 0 >> \in DOMAIN pre.mats[REIMPORT_MAT_NAME].nodes
    /\ materials[REIMPORT_MAT_NAME].nodes[<< ImageName("Alpha"), 0 >>].image
            \in LoadedFrom(images, ExportFile(gd, "alpha"))
    /\ materials[REIMPORT_MAT_NAME].nodes[<< ImageName("Roughness"), 0 >>].image
            = << "", 0 >>

(***************************************************************************)
(* Properties of the splice protocol                                       *)
(***************************************************************************)
\* The <<node, output socket>> pairs an input socket is linked from.
SourcesOf(t, tn, ts) == { << l.fn, l.fs >> : l \in LinksInto(t, tn, ts) }

\* The materials the last apply_node_to_objects spliced its recipe into.
SplicedByCall ==
    { m \in pre.spliced : AlreadySpliced(materials[m], call.name) }

\* The passthrough nodes of a recipe in a material.
Passthroughs(t, name) ==
    { n \in DOMAIN t.nodes :
        t.nodes[n].type = "GROUP" /\ t.nodes[n].tree = name }

\* The BSDF nodes linked into an input of an output node of the material.
FeedingBSDFs(t) ==
    { l.fn : l \in { k \in t.links :
                        /\ t.nodes[k.tn].type = "OUTPUT_MATERIAL"
                        /\ IsBSDF(t.nodes[k.fn].type) } }

\* Whether a node type has the input socket a recipe is bridged to.
HasChannel(name, type) ==
    \E i \in 1..Len(InputNames(type)) : ChannelMatches(name, InputNames(type)[i])

\* Whether the node's input socket a recipe is bridged to is linked.
ChannelLinked(t, name, b) ==
    \E i \in 1..Len(InputNames(t.nodes[b].type)) :
        /\ ChannelMatches(name, InputNames(t.nodes[b].type)[i])
        /\ LinksInto(t, b, InputNames(t.nodes[b].type)[i]) # {}

\* C2: after apply_node_to_objects(N) followed by node_cleanup(N), the
\* Surface, Volume and Displacement inputs of every output node that was
\* spliced are linked from the same node / output socket pairs as before
\* the splice, and an input that had no link has none.
C2_RoundTrip ==
    (call.op = "cleanup" /\ call.after) =>
        \A m \in (DOMAIN pre.mats) \cap (DOMAIN materials) :
            ~AlreadySpliced(pre.mats[m], call.name) =>
                \A out \in OutputNodesOf(pre.mats[m]) :
                    \A s \in { "Surface", "Volume", "Displacement" } :
                        SourcesOf(materials[m], out, s)
                            = SourcesOf(pre.mats[m], out, s)

\* C3: whatever calls were made, a material holds either no passthrough
\* of the recipe or exactly one per output node, and a call leaves a
\* material that already held the passthrough exactly as it was.
C3_SplicedOncePerMaterial ==
    /\ \A m \in DOMAIN materials :
        LET ps == Passthroughs(materials[m], call.pass)
        IN  \/ ps = {}
            \/ /\ Cardinality(ps) = Cardinality(OutputNodesOf(materials[m]))
               /\ Cardinality({ n \in DOMAIN materials[m].nodes :
                                    n[1] = call.pass }) = 2 * Cardinality(ps)
    /\ call.op = "apply" =>
        \A m \in DOMAIN pre.mats :
            AlreadySpliced(pre.mats[m], call.name) =>
                materials[m] = pre.mats[m]

\* A second call reached a material that the first had spliced.
C3_Witness ==
    /\ call.op = "apply"
    /\ call.result # "raised"
    /\ \E ob \in SeqToSet(pre.objs) : \E i \in 1..Len(slots[ob]) :
        /\ slots[ob][i] \in DOMAIN pre.mats
        /\ AlreadySpliced(pre.mats[slots[ob][i]], call.name)
        /\ OutputNodesOf(pre.mats[slots[ob][i]]) # {}

\* C5: after apply_node_to_objects(N) every output node of every spliced
\* material has its Surface input linked from the Shader output of a
\* passthrough of recipe N; after the node_cleanup(N) that follows, no
\* material holds a node whose name starts with N.
C5_SplicedThenClean ==
    /\ call.op = "apply" =>
        \A m \in SplicedByCall :
            \A out \in OutputNodesOf(materials[m]) :
                \E l \in LinksInto(materials[m], out, "Surface") :
                    /\ l.fn \in Passthroughs(materials[m], call.name)
                    /\ OutputNames("GROUP")[l.fs] = "Shader"
    /\ (call.op = "cleanup" /\ call.after) =>
        \A m \in DOMAIN materials :
            \A n \in DOMAIN materials[m].nodes : ~StartsWith(n, call.name)

\* The cleanup followed a call that spliced a material fed by a BSDF.
C5_Witness ==
    /\ call.op = "cleanup"
    /\ call.after
    /\ \E m \in pre.spliced \cap DOMAIN materials :
        /\ m \in DOMAIN pre.mats
        /\ SourcesOf(pre.mats[m], MO, "Surface") = { << PB, 1 >> }
        /\ SourcesOf(materials[m], MO, "Surface") = { << PB, 1 >> }

\* C6: apply_node_to_objects leaves every object it was given that had no
\* slot or an empty slot with at least one slot, every slot that was empty
\* holding the scratch material, no slot removed; the scratch material
\* exists once, with a black Emission Color.
C6_EmptySlotsFilled ==
    call.op = "apply" =>
        \A ob \in SeqToSet(pre.objs) :
            (pre.slots[ob] = << >> \/ "" \in SeqToSet(pre.slots[ob])) =>
                /\ Len(slots[ob]) >= 1
                /\ Len(slots[ob]) >= Len(pre.slots[ob])
                /\ \A i \in 1..Len(pre.slots[ob]) :
                    slots[ob][i] = IF pre.slots[ob][i] = ""
                                   THEN GD_MATERIAL_NAME
                                   ELSE pre.slots[ob][i]
                /\ GD_MATERIAL_NAME \in DOMAIN materials
                /\ materials[GD_MATERIAL_NAME].nodes[PB].vals["Emission Color"]
                        = "black"

\* The materials whose splice, by C7 as stated, makes the result False:
\* a BSDF feeding the output lacks the recipe's channel socket.
LacksChannelSocket ==
    { m \in SplicedByCall \ { GD_MATERIAL_NAME } :
        \E b \in FeedingBSDFs(pre.mats[m]) :
            ~HasChannel(call.name, pre.mats[m].nodes[b].type) }

\* The materials whose splice makes the code's flag False: a BSDF feeding
\* the output has no incoming link on the recipe's channel socket.
LacksChannelLink ==
    { m \in SplicedByCall \ { GD_MATERIAL_NAME } :
        \E b \in FeedingBSDFs(pre.mats[m]) :
            ~ChannelLinked(pre.mats[m], call.name, b) }

LacksOutputNode ==
    { m \in DOMAIN pre.mats :
        /\ \E ob \in SeqToSet(pre.objs) : m \in SeqToSet(pre.slots[ob])
        /\ OutputNodesOf(pre.mats[m]) = {}
        /\ ~AlreadySpliced(pre.mats[m], call.name) }

C8_NormalAlwaysTrue ==
    call.op = "apply" =>
        /\ call.name = NORMAL_NODE => call.result = "True"
        /\ call.result = "False" => SplicedByCall \ { GD_MATERIAL_NAME } # {}
        /\ (call.result # "raised"
                /\ call.name \in SHADER_MAP_NAMES \ { NORMAL_NODE }
                /\ LacksChannelLink # {}) => call.result = "False"

\* C9: a material of a participating object that has no output node gets
\* one, with a passthrough spliced into its Surface input, and the call
\* does not raise.
C9_OutputNodeCreated ==
    call.op = "apply" =>
        \A ob \in SeqToSet(pre.objs) : \A i \in 1..Len(pre.slots[ob]) :
            LET m == pre.slots[ob][i]
            IN  (/\ m # ""
                 /\ OutputNodesOf(pre.mats[m]) = {}
                 /\ ~AlreadySpliced(pre.mats[m], call.name)) =>
                    /\ call.result # "raised"
                    /\ Cardinality(OutputNodesOf(materials[m])) = 1
                    /\ \A out \in OutputNodesOf(materials[m]) :
                        \E l \in LinksInto(materials[m], out, "Surface") :
                            l.fn \in Passthroughs(materials[m], call.name)

\* C10: while a material is spliced, the Volume and Displacement inputs of
\* its output nodes carry no link, whatever fed them before and whatever
\* the recipe.
C10_VolumeDisplacementDropped ==
    \A m \in DOMAIN materials :
        AlreadySpliced(materials[m], call.pass) =>
            \A out \in OutputNodesOf(materials[m]) :
                /\ LinksInto(materials[m], out, "Volume") = {}
                /\ LinksInto(materials[m], out, "Displacement") = {}

\* A material whose output had a Volume and a Displacement link is spliced.
C10_Witness ==
    /\ call.op = "apply"
    /\ \E m \in SplicedByCall \cap DOMAIN pre.mats :
        \E out \in OutputNodesOf(pre.mats[m]) :
            /\ LinksInto(pre.mats[m], out, "Volume") # {}
            /\ LinksInto(pre.mats[m], out, "Displacement") # {}


(***************************************************************************)
(* Properties of node_cleanup, step by step                                *)
(***************************************************************************)
\* The nodes of a material that node_cleanup(N) looks at.
GrabdocNodes(t, name) == { n \in DOMAIN t.nodes : StartsWith(n, name) }

\* The links a cleanup of the material is to create: for every node of
\* the recipe that feeds an output node, one link per linked input named
\* Surface, Volume or Displacement, from the input's source to the output
\* node's socket of the same name.
Reconnected(t, name) ==
    UNION { { Link(l.fn, l.fs, o, l.ts) : o \in DownstreamOutputs(t, l.tn) } :
            l \in { k \in t.links :
                        /\ k.tn \in GrabdocNodes(t, name)
                        /\ k.ts \in { "Surface", "Volume", "Displacement" } } }

\* C21: in a node_cleanup(N) step, every node whose name starts with N
\* is deleted from a material that holds node N; a node feeding no output
\* node goes without any link of the material being created or changed,
\* and a node feeding an output node goes with each of its linked
\* Surface, Volume and Displacement inputs reconnected from the input's
\* source to the output node's socket of the same name.  So the links of
\* the material afterwards are the links that touched no such node and
\* no reconnected socket, plus the reconnections.
C21_CleanupReconnects ==
    [][ (call'.op = "cleanup" /\ call'.name # "None") =>
            \A m \in (DOMAIN materials) \ { GD_MATERIAL_NAME } :
                LET t == materials[m]
                    g == GrabdocNodes(t, call'.name)
                    rec == Reconnected(t, call'.name)
                IN  AlreadySpliced(t, call'.name) =>
                        /\ m \in DOMAIN materials'
                        /\ DOMAIN materials'[m].nodes = (DOMAIN t.nodes) \ g
                        /\ materials'[m].links =
                            { l \in t.links :
                                /\ l.fn \notin g
                                /\ l.tn \notin g
                                /\ \A r \in rec :
                                        ~(r.tn = l.tn /\ r.ts = l.ts) }
                            \cup rec ]_vars

\* A cleanup found a passthrough whose Surface, Volume and Displacement
\* inputs were all linked, next to a frame that fed nothing, and left the
\* output node fed by the three sources.
C21_Witness ==
    /\ call.op = "cleanup"
    /\ call.after
    /\ \E m \in pre.spliced \cap DOMAIN materials :
        /\ GrabdocNodes(materials[m], call.name) = {}
        /\ SourcesOf(materials[m], MO, "Volume") = { << MIX, 1 >> }
        /\ SourcesOf(materials[m], MO, "Displacement") = { << DISP, 1 >> }
        /\ SourcesOf(materials[m], MO, "Surface") # {}


\* C22: after node_cleanup(N) with N other than None the document holds
\* no scratch material, whichever recipe was spliced into it;
\* node_cleanup(None) leaves every material as it was.
C22_ScratchRemoved ==
    /\ (call.op = "cleanup" /\ call.name # "None") =>
            GD_MATERIAL_NAME \notin DOMAIN materials
    /\ (call.op = "cleanup" /\ call.name = "None") =>
            materials = pre.mats

\* The cleanup of one recipe found the scratch material holding the
\* passthrough of another.
C22_Witness ==
    /\ call.op = "cleanup"
    /\ call.name \notin { "None", call.pass }
    /\ GD_MATERIAL_NAME \in DOMAIN pre.mats
    /\ AlreadySpliced(pre.mats[GD_MATERIAL_NAME], call.pass)
    /\ GD_MATERIAL_NAME \notin DOMAIN materials


(***************************************************************************)
(* create_node_links on its own: one call on a material that holds the     *)
(* node of original_input, a group node and two nodes that may feed the    *)
(* original input                                                          *)
(***************************************************************************)
\* The group whose input of that name is bridged.
GroupOf(input_name) ==
    CASE input_name = "Roughness" -> ROUGHNESS_NODE
      [] input_name = "Base Color" -> COLOR_NODE
      [] OTHER -> "Counter"

\* The input bridged is one of two channels of the recipes or the integer
\* socket of the user's group; original_input holds a float, an integer
\* or a colour and is unlinked or fed by an output of an image texture or
\* of a Mix node.
InitLinks ==
    /\ node_groups = AllRecipes
    /\ \E input_name \in { "Roughness", "Base Color", "Steps" },
          v \in { "0", "half", "1", "i0", "i1", "grey" },
          from \in { {} } \cup { { << n, i >> } : n \in { TEX, MIX },
                                                 i \in 1..2 } :
        /\ materials =
            ("M1" :>
                Tree((PB :> [Principled EXCEPT
                                !.vals = (input_name :> v) @@ @])
                        @@ (TEX :> UserNode("TEX_IMAGE"))
                        @@ (MIX :> UserNode("MIX"))
                        @@ (MO :> UserNode("OUTPUT_MATERIAL"))
                        @@ (<< GroupOf(input_name), 0 >> :>
                                [type |-> "GROUP",
                                 tree |-> GroupOf(input_name),
                                 vals |-> NoVals]),
                     { Link(f[1], f[2], PB, input_name) : f \in from }))
        /\ call = NoCall(input_name)
    /\ slots = ("O1" :> << "M1" >>) @@ ("O2" :> << >>)
    /\ texts = {}
    /\ images = {}
    /\ files = {}
    /\ gd = DefaultProps
    /\ IdleBake
    /\ pre = Found(<< >>, {})

\* create_node_links(input_name, node_group, original_input, material)
CreateNodeLinks ==
    /\ call.op = "none"
    /\ LET r == create_node_links(materials["M1"], call.pass,
                                  << GroupOf(call.pass), 0 >>, PB)
       IN  /\ materials' = [materials EXCEPT !["M1"] = r.t]
           /\ call' = CallOf("create_node_links", call.pass,
                             IF r.raised THEN "raised"
                             ELSE IF r.found THEN "True" ELSE "False")
    /\ pre' = Found(<< >>, {})
    /\ UNCHANGED << images, files, node_groups, slots, texts, gd, scene,
                    saved, pc >>

NextLinks == CreateNodeLinks

SpecLinks == InitLinks /\ [][NextLinks]_vars

\* C23: when original_input has an incoming link, the group's input is
\* linked from that link's source socket and the result is True;
\* otherwise no link is created, the result is False and the group's
\* input holds original_input's default value, converted from float to
\* int or from int to float when the two sockets differ in numeric type.
C23_LinkedOrCopied ==
    call.op = "create_node_links" =>
        LET s == call.name
            p == << GroupOf(s), 0 >>
            before == pre.mats["M1"]
            after == materials["M1"]
            v == before.nodes[PB].vals[s]
        IN  IF LinksInto(before, PB, s) # {}
            THEN /\ SourcesOf(after, p, s) = SourcesOf(before, PB, s)
                 /\ call.result = "True"
            ELSE { ValueType(v), SocketType(s) } \subseteq { "FLOAT", "INT" } =>
                    /\ call.result = "False"
                    /\ after.links = before.links
                    /\ after.nodes[p].vals[s] =
                        IF ValueType(v) = SocketType(s) THEN v
                        ELSE IF ValueType(v) = "FLOAT" THEN ToInt(v)
                        ELSE ToFloat(v)


(***************************************************************************)
(* Properties of the maps' render settings                                 *)
(***************************************************************************)
\* C24: apply_render_settings applies always: the engine, the sampling
\* fields of the chosen engine, the colour management and the look are
\* set from the descriptor's values whether check is True or False and
\* whether a preview is live or not, and every other setting, the
\* sampling fields of the other engines among them, is as it was.
C24_AlwaysApplies ==
    call.op = "apply_render_settings" =>
        \A k \in DOMAIN scene :
            scene[k] = IF k \in PerMapOverrides(call.engine)
                       THEN AppliedValue(k, call.engine, call.contrast)
                       ELSE call.before[k]

\* The call was made with check off and no live preview, and took the
\* document from Eevee to Cycles with the Eevee sampling left alone.
C24_Witness ==
    /\ call.op = "apply_render_settings"
    /\ ~call.check
    /\ ~gd.preview_state
    /\ call.engine = "cycles"
    /\ call.before.engine = "BLENDER_EEVEE"
    /\ scene.engine = "CYCLES"
    /\ scene.samples = MapDefaults.samples_cycles
    /\ call.before.samples # MapDefaults.samples_cycles
    /\ scene.taa_samples = call.before.taa_samples
    /\ scene.taa_samples # MapDefaults.samples


\* C25: from baker_init to baker_cleanup, eevee.use_gtao is on only
\* between Occlusion's setup and Occlusion's cleanup, and only when that
\* setup ran with Eevee as the engine: baker_init turns it off, no other
\* map's setup turns it on, and Occlusion's cleanup turns it off.
C25_AmbientOnlyInOcclusion ==
    /\ scene.use_gtao = "True" =>
            /\ pc = "Occlusion"
            /\ call.op = "setup"
            /\ call.engine = "blender_eevee"
            /\ scene.engine = "BLENDER_EEVEE"
    /\ (call.op = "cleanup" /\ call.name = "Occlusion") =>
            scene.use_gtao = "False"

\* The user's document had ambient occlusion on; it is on again between
\* Occlusion's setup under Eevee and its cleanup.
C25_Witness ==
    /\ pc = "Occlusion"
    /\ call.op = "setup"
    /\ call.engine = "blender_eevee"
    /\ pre.scene.use_gtao = "True"
    /\ call.before.use_gtao = "False"
    /\ scene.use_gtao = "True"


\* C26: when the scene has a world, world.use_nodes is off after
\* baker_init and on after the baker_cleanup that follows, whatever it
\* was before baker_init: it is not captured and not restored.
C26_WorldNodesOn ==
    \A self \in Operators :
        pre.scene.world_use_nodes # "no world" =>
            /\ pc = << << self, "baker_init" >> >> =>
                    /\ scene.world_use_nodes = "False"
                    /\ \A f \in DOMAIN saved[self] :
                            f \in DOMAIN SavedFields =>
                                SavedFields[f] # "world_use_nodes"
            /\ pc = << << self, "baker_init" >>, << self, "baker_cleanup" >> >>
                    => scene.world_use_nodes = "True"

\* The world's nodes were off before baker_init and are on after
\* baker_cleanup.
C26_Witness ==
    /\ pc = << << "A", "baker_init" >>, << "A", "baker_cleanup" >> >>
    /\ pre.scene.world_use_nodes = "False"
    /\ scene.world_use_nodes = "True"


(***************************************************************************)
(* Properties of the splice: blend_method and the Normal recipe            *)
(***************************************************************************)
\* A BSDF that feeds an output node of the material has its Alpha input
\* linked, and the material's blend_method is OPAQUE.
OpaqueWithAlphaLink(t) ==
    /\ t.blend = "OPAQUE"
    /\ \E b \in FeedingBSDFs(t) : LinksInto(t, b, "Alpha") # {}

\* C27: splicing the Alpha recipe into a material whose BSDF has its
\* Alpha input linked and whose blend_method is OPAQUE leaves the
\* blend_method CLIP; node_cleanup never writes blend_method, so after
\* the node_cleanup(Alpha) that follows it is still CLIP, not OPAQUE.
C27_AlphaBlendStaysClip ==
    /\ (call.op = "apply" /\ call.name = ALPHA_NODE) =>
            \A m \in SplicedByCall \cap DOMAIN pre.mats :
                OpaqueWithAlphaLink(pre.mats[m]) => materials[m].blend = "CLIP"
    /\ (call.op = "cleanup" /\ call.after /\ call.name = ALPHA_NODE) =>
            \A m \in pre.spliced \cap DOMAIN pre.mats \cap DOMAIN materials :
                OpaqueWithAlphaLink(pre.mats[m]) => materials[m].blend = "CLIP"
    /\ (call.op = "cleanup" /\ ~call.after) =>
            \A m \in DOMAIN materials :
                materials[m].blend = pre.mats[m].blend

\* The Alpha recipe was spliced into a textured material and cleaned up:
\* the links are back and the blend_method is not.
C27_Witness ==
    /\ call.op = "cleanup"
    /\ call.after
    /\ call.name = ALPHA_NODE
    /\ "M1" \in pre.spliced
    /\ OpaqueWithAlphaLink(pre.mats["M1"])
    /\ materials["M1"].links = pre.mats["M1"].links
    /\ materials["M1"].blend = "CLIP"


\* C28: splicing the Normal recipe bridges the BSDF's Normal input only:
\* the passthrough's Alpha input is neither linked nor given the BSDF's
\* value (it keeps the recipe's default 1), no input of the passthrough
\* other than Normal and the saved output links is linked, and the
\* material's blend_method is as before, with use_texture on or off.
C28_NormalBridgesNormalOnly ==
    (call.op = "apply" /\ call.name = NORMAL_NODE) =>
        \A m \in SplicedByCall :
            /\ \A p \in Passthroughs(materials[m], NORMAL_NODE) :
                /\ LinksInto(materials[m], p, "Alpha") = {}
                /\ materials[m].nodes[p].vals["Alpha"] = "1"
                /\ \A l \in materials[m].links :
                        l.tn = p =>
                            l.ts \in { "Normal" } \cup MaterialOutputInputs
            /\ materials[m].blend =
                    IF m \in DOMAIN pre.mats THEN pre.mats[m].blend
                    ELSE "OPAQUE"

\* With use_texture on, the Normal recipe was spliced into an opaque
\* material whose BSDF has its Alpha and Normal inputs linked.
C28_Witness ==
    /\ call.op = "apply"
    /\ call.name = NORMAL_NODE
    /\ gd.use_texture
    /\ "M1" \in SplicedByCall
    /\ OpaqueWithAlphaLink(pre.mats["M1"])
    /\ SourcesOf(materials["M1"], << NORMAL_NODE, 0 >>, "Normal")
            = { << TEX, 1 >> }
    /\ materials["M1"].blend = "OPAQUE"


(***************************************************************************)
(* The callbacks that write into a recipe and Normals.setup, called in     *)
(* any order on a document whose recipes node_init has built; pc counts    *)
(* the calls                                                               *)
(***************************************************************************)
MaxCalls == 2

\* The values the user gives a property.
PropertyValues(property) ==
    CASE property = "gamma" -> { "1", "2" }
      [] property = "distance" -> { "1", "0.5" }
      [] property = "height_distance" -> { 1, 2 }
      [] OTHER -> BOOLEAN

InitCallbacks ==
    /\ \E preview_state \in BOOLEAN, use_texture \in BOOLEAN :
            gd = [DefaultProps EXCEPT !.preview_state = preview_state,
                                      !.use_texture = use_texture]
    /\ node_groups = node_init([n \in {} |-> 0], gd)
    /\ materials = [m \in {} |-> 0]
    /\ slots = [ob \in Objects |-> << >>]
    /\ texts = {}
    /\ images = {}
    /\ files = {}
    /\ scene \in UserScenes
    /\ saved = [f \in {} |-> ""]
    /\ pc = 0
    /\ call = NoCall("")
    /\ pre = Found(<< >>, {})

\* The property is set, then its update callback runs; when the callback
\* raises the property keeps its new value.
SetProperty(cb, value) ==
    /\ pc < MaxCalls
    /\ gd' = [gd EXCEPT ![Callbacks[cb].property] = value]
    /\ LET r == RunCallback(cb, node_groups, gd')
       IN  /\ node_groups' = r.groups
           /\ call' = CallOf(cb, Callbacks[cb].recipe,
                             IF r.raised THEN "raised" ELSE "None")
    /\ pc' = pc + 1
    /\ pre' = Found(<< >>, {})
    /\ UNCHANGED << images, files, materials, slots, texts, scene, saved >>

\* Normals.setup(): the render settings, then the rewiring.
SetupNormals(engine, contrast) ==
    /\ pc < MaxCalls
    /\ LET r == MapSetupOf("Normals", scene, saved, engine, contrast,
                           gd.preview_state)
       IN  scene' = r.scene /\ saved' = r.saved
    /\ node_groups' = RewireNormal(node_groups, gd.use_texture)
    /\ call' = CallOf("setup", "Normals", "None")
    /\ pc' = pc + 1
    /\ pre' = Found(<< >>, {})
    /\ UNCHANGED << images, files, materials, slots, texts, gd >>

NextCallbacks ==
    \/ \E cb \in DOMAIN Callbacks :
        \E value \in PropertyValues(Callbacks[cb].property) :
            SetProperty(cb, value)
    \/ \E engine \in BakeMaps["Normals"], contrast \in Contrasts :
            SetupNormals(engine, contrast)

SpecCallbacks == InitCallbacks /\ [][NextCallbacks]_vars

\* C29: every node name a callback looks up in its recipe is the name of
\* a node node_init creates there, so on a document whose recipes
\* node_init has built none of update_flip_y, update_use_texture,
\* update_gamma, update_distance, update_guide and update_alpha fails on
\* a missing node.
C29_LookupsFindTheirNodes ==
    call.op \in DOMAIN Callbacks =>
        /\ LookedUp(call.op, gd) \subseteq
                node_groups[<< Callbacks[call.op].recipe, 0 >>].nodes
        /\ call.result # "raised"

\* The source << node, output socket >> pairs of an input of a node of
\* the Normal recipe.
NormalSources(groups, tn, ts) ==
    { << l.fn, l.fs >> :
        l \in { k \in groups[<< NORMAL_NODE, 0 >>].links :
                    k.tn = tn /\ k.ts = ts } }

\* The Normal recipe is wired for the flag: textured or plain.
WiredFor(groups, use_texture) ==
    /\ NormalSources(groups, << "Vector Transform", 0 >>, "Vector") =
            { << << "Bevel", IF use_texture THEN 0 ELSE 1 >>, "Normal" >> }
    /\ NormalSources(groups, << "Group Output", 0 >>, "Shader") =
            IF use_texture
            THEN { << << "Mix Shader", 0 >>, "Shader" >> }
            ELSE { << << "Vector Math", 1 >>, "Vector" >> }

\* C30: after Normals.setup() the Vector Transform's Vector input is fed
\* by Bevel and the Group Output's Shader input by Mix Shader when
\* use_texture is on, by Bevel.001 and Vector Math.001 when it is off,
\* each socket holding exactly one link; update_use_texture rewires in
\* the same way when a preview is live and leaves the recipe's links as
\* they were otherwise.
C30_WiringFollowsFlag ==
    /\ (call.op = "setup" /\ call.name = "Normals") =>
            WiredFor(node_groups, gd.use_texture)
    /\ call.op = "update_use_texture" =>
            IF gd.preview_state
            THEN WiredFor(node_groups, gd.use_texture)
            ELSE node_groups[<< NORMAL_NODE, 0 >>].links
                    = pre.groups[<< NORMAL_NODE, 0 >>].links

\* With no preview live the flag was turned off after a setup had wired
\* the recipe for textures: the recipe is still wired for textures.
C30_Witness ==
    /\ call.op = "update_use_texture"
    /\ ~gd.preview_state
    /\ ~gd.use_texture
    /\ pre.groups[<< NORMAL_NODE, 0 >>].links # RecipeLinks(NORMAL_NODE)
    /\ WiredFor(node_groups, TRUE)

====
